---------------------------- MODULE Spec2Model ----------------------------
(***************************************************************************)
(* House assignment optimizer of dream_and_lethe.                          *)
(*                                                                         *)
(* src/src/solver.py                  HouseAssignmentSolver (the bot's)    *)
(* src/src/house_assignment_solver.py HouseAssignmentOptimizer (the CLI's) *)
(* src/src/botdiscord.py              the /rela command in front of it     *)
(* src/src/user_manager.py            the users' stored character lists    *)
(* src/constants/bot_constants.py     default capacities and relationships *)
(*                                                                         *)
(* Python values are modelled as follows.  A list is a sequence, a dict a  *)
(* function whose DOMAIN is its keys, a set a set.  None is the empty      *)
(* tuple <<>> wherever the value is otherwise a non-empty tuple; an        *)
(* optional integer is <<>> or <<n>>.  House indices are 0-based as in the *)
(* source and shifted by one where a sequence is indexed.  An IndexError   *)
(* raised by house_capacities[i] is the value IndexError, propagated to    *)
(* the caller.  random.shuffle and random.choice read the interpreter's    *)
(* module-level generator, which no function of the repository seeds or    *)
(* takes as a parameter: each draw is a choice among all its outcomes.     *)
(***************************************************************************)
EXTENDS Integers, Sequences, FiniteSets, TLC

VARIABLES
    impl,                 \* "solver" (solver.py) or "optimizer" (house_assignment_solver.py)
    characters,           \* /rela: the name tokens of the request (character_list)
    people_to_select,     \* argument of optimize_assignment / greedy_optimize
    iterations_arg,       \* argument iterations: <<>> for None, <<n>> otherwise
    capacities_arg,       \* argument house_capacities: <<>> for None, <<list>> otherwise
    house_capacities,     \* self.house_capacities
    relationships,        \* self.relationships
    people,               \* self.people
    connection_graph,     \* self.connection_graph
    pc,                   \* position in the call
    selected_people,      \* local of optimize_assignment / greedy_optimize
    iterations,           \* local: the trial budget
    iteration,            \* local: the trial index
    assignment,           \* local: the trial's constructed assignment
    score,                \* local: its score
    current_assignment,   \* _local_search: working copy
    current_score,        \* _local_search: its score
    ls_iterations,        \* _local_search: passes done
    improved,             \* _local_search: loop flag
    best_assignment,      \* local: best so far (None when unset)
    best_score,           \* local
    no_improvement_count, \* local
    result,               \* what the call returned: <<assignment, score>>
    reply,                \* /rela: the message sent, <<>> before
    first_result,         \* the previous call's return value when the call is repeated
    user_files,           \* user_manager: the "characters" list stored for each user
    last_op,              \* user_manager: the last call, its arguments and what it returned
    now,                  \* weekly_reset_task: datetime.now(GMT_PLUS_7) at the next check
    checks,               \* weekly_reset_task: the checks the loop has run
    reset_log,            \* the checks that called reset_all_users
    handlers              \* the /add commands being served: each handler's position

vars == <<impl, characters, people_to_select, iterations_arg, house_capacities,
          relationships, people, connection_graph, pc, selected_people,
          iterations, iteration, assignment, score, current_assignment,
          current_score, ls_iterations, improved, best_assignment, best_score,
          no_improvement_count, result, reply, first_result, capacities_arg,
          user_files, last_op, now, checks, reset_log, handlers>>

-----------------------------------------------------------------------------
(* Python values *)

None == <<>>

IndexError == <<"IndexError">>

\* What a call that loops for ever gives: nothing, at no time.
NeverReturns == <<"never returns">>

\* The number of houses every strategy hardcodes: [[], [], []] and range(3).
NumHouses == 3

EmptyAssignment == <<<<>>, <<>>, <<>>>>

Range(list) == {list[k] : k \in 1..Len(list)}

RECURSIVE SumSeq(_)
SumSeq(list) == IF list = <<>> THEN 0 ELSE Head(list) + SumSeq(Tail(list))

Min(a, b) == IF a < b THEN a ELSE b

Max(a, b) == IF a > b THEN a ELSE b

\* list[:n]: the first n entries, all but the last -n when n is negative.
SliceTo(list, n) ==
    IF n >= 0 THEN SubSeq(list, 1, Min(n, Len(list)))
    ELSE SubSeq(list, 1, Max(0, Len(list) + n))

\* list.remove(x): drops the first occurrence of x.
RemoveFirst(list, x) ==
    LET k == CHOOSE k \in 1..Len(list) :
                 list[k] = x /\ \A m \in 1..(k - 1) : list[m] # x
    IN  SubSeq(list, 1, k - 1) \o SubSeq(list, k + 1, Len(list))

\* random.shuffle(list): every ordering of the list.
Shuffles(list) ==
    {[k \in 1..Len(list) |-> list[p[k]]] : p \in Permutations(1..Len(list))}

-----------------------------------------------------------------------------
(* Constants of src/constants/bot_constants.py *)

HOUSE_CAPACITIES == <<3, 6, 6>>

RELATIONSHIPS ==
    [p \in {"Imperial", "Weiqing", "Yuhuan", "Dufu", "Qubing", "Zhen Ji",
            "Han Wu", "Zihuan", "Jikang", "Jingke", "Jianli", "Wan'er",
            "Ruanji", "Zhangliang", "Zhaojun", "Empress", "Taiping", "Longji",
            "Libai", "Shimin", "Zijian", "Xiangyu", "Consort Yu", "Zifu",
            "Xizhi", "Luzhi", "Liubang", "Hanfei", "Mulan"} |->
        CASE p = "Imperial"   -> <<"Jingke", "Hanfei", "Han Wu">>
          [] p = "Weiqing"    -> <<"Qubing", "Han Wu">>
          [] p = "Yuhuan"     -> <<"Libai", "Longji">>
          [] p = "Dufu"       -> <<"Libai">>
          [] p = "Qubing"     -> <<"Weiqing", "Han Wu">>
          [] p = "Zhen Ji"    -> <<"Zihuan">>
          [] p = "Han Wu"     -> <<"Weiqing", "Shimin", "Zifu", "Imperial", "Qubing">>
          [] p = "Zihuan"     -> <<"Zhen Ji", "Zijian">>
          [] p = "Jikang"     -> <<"Ruanji">>
          [] p = "Jingke"     -> <<"Imperial", "Jianli">>
          [] p = "Jianli"     -> <<"Jingke", "Longji">>
          [] p = "Wan'er"     -> <<"Empress", "Taiping">>
          [] p = "Ruanji"     -> <<"Jikang">>
          [] p = "Zhangliang" -> <<"Liubang">>
          [] p = "Zhaojun"    -> <<"Mulan">>
          [] p = "Empress"    -> <<"Wan'er", "Taiping", "Luzhi">>
          [] p = "Taiping"    -> <<"Empress", "Wan'er">>
          [] p = "Longji"     -> <<"Yuhuan", "Jianli">>
          [] p = "Libai"      -> <<"Yuhuan", "Dufu">>
          [] p = "Shimin"     -> <<"Han Wu", "Xizhi">>
          [] p = "Zijian"     -> <<"Zihuan">>
          [] p = "Xiangyu"    -> <<"Consort Yu">>
          [] p = "Consort Yu" -> <<"Xiangyu">>
          [] p = "Zifu"       -> <<"Han Wu">>
          [] p = "Xizhi"      -> <<"Shimin">>
          [] p = "Luzhi"      -> <<"Empress", "Liubang">>
          [] p = "Liubang"    -> <<"Zhangliang", "Luzhi">>
          [] p = "Hanfei"     -> <<"Imperial">>
          [] p = "Mulan"      -> <<"Zhaojun">>]

\* _get_all_characters: sorted(list(characters))
CHARACTERS ==
    <<"Consort Yu", "Dufu", "Empress", "Han Wu", "Hanfei", "Imperial",
      "Jianli", "Jikang", "Jingke", "Libai", "Liubang", "Longji", "Luzhi",
      "Mulan", "Qubing", "Ruanji", "Shimin", "Taiping", "Wan'er",
      "Weiqing", "Xiangyu", "Xizhi", "Yuhuan", "Zhangliang", "Zhaojun",
      "Zhen Ji", "Zifu", "Zihuan", "Zijian">>

\* str.lower() on the spellings the model uses: the registry's names and the
\* spellings a request may carry.
Lower(s) ==
        CASE s = "Consort Yu"   -> "consort yu"
          [] s = "Dufu"         -> "dufu"
          [] s = "Empress"      -> "empress"
          [] s = "Han Wu"       -> "han wu"
          [] s = "Hanfei"       -> "hanfei"
          [] s = "Imperial"     -> "imperial"
          [] s = "Jianli"       -> "jianli"
          [] s = "Jikang"       -> "jikang"
          [] s = "Jingke"       -> "jingke"
          [] s = "Libai"        -> "libai"
          [] s = "Liubang"      -> "liubang"
          [] s = "Longji"       -> "longji"
          [] s = "Luzhi"        -> "luzhi"
          [] s = "Mulan"        -> "mulan"
          [] s = "Qubing"       -> "qubing"
          [] s = "Ruanji"       -> "ruanji"
          [] s = "Shimin"       -> "shimin"
          [] s = "Taiping"      -> "taiping"
          [] s = "Wan'er"       -> "wan'er"
          [] s = "Weiqing"      -> "weiqing"
          [] s = "Xiangyu"      -> "xiangyu"
          [] s = "Xizhi"        -> "xizhi"
          [] s = "Yuhuan"       -> "yuhuan"
          [] s = "Zhangliang"   -> "zhangliang"
          [] s = "Zhaojun"      -> "zhaojun"
          [] s = "Zhen Ji"      -> "zhen ji"
          [] s = "Zifu"         -> "zifu"
          [] s = "Zihuan"       -> "zihuan"
          [] s = "Zijian"       -> "zijian"
          [] s = "han wu"       -> "han wu"
          [] s = "HAN WU"       -> "han wu"
          [] s = "weiqing"      -> "weiqing"
          [] s = "Nobody"       -> "nobody"

-----------------------------------------------------------------------------
(* __init__: the registry and the bidirectional connection graph *)

BuildPeople(rel) ==
    DOMAIN rel \cup UNION {Range(rel[p]) : p \in DOMAIN rel}

\* connection_graph[person].add(conn); connection_graph[conn].add(person)
BuildGraph(rel) ==
    LET keys == {p \in DOMAIN rel : rel[p] # <<>>}
                    \cup UNION {Range(rel[p]) : p \in DOMAIN rel}
    IN  [x \in keys |->
            (IF x \in DOMAIN rel THEN Range(rel[x]) ELSE {})
                \cup {p \in DOMAIN rel : x \in Range(rel[p])}]

\* connection_graph[x] of a defaultdict(set): the empty set for a missing key.
Neighbors(x) ==
    IF x \in DOMAIN connection_graph THEN connection_graph[x] ELSE {}

calculate_connections_in_house(people_in_house) ==
    Cardinality({ij \in (1..Len(people_in_house)) \X (1..Len(people_in_house)) :
                    /\ ij[1] < ij[2]
                    /\ people_in_house[ij[2]] \in Neighbors(people_in_house[ij[1]])})

_calculate_total_score(a) ==
    SumSeq([h \in 1..Len(a) |-> calculate_connections_in_house(a[h])])

calculate_person_priority(person, people_pool) ==
    Cardinality({k \in 1..Len(people_pool) :
                    /\ people_pool[k] # person
                    /\ people_pool[k] \in Neighbors(person)})

_calculate_cluster_bonus(person, people_pool) ==
    IF person \notin people THEN 0
    ELSE LET Connected(other) == other # person /\ other \in Neighbors(person)
             connected_people == SelectSeq(people_pool, Connected)
         IN  calculate_connections_in_house(connected_people)

\* connection_graph is a defaultdict(set): connection_graph[x] for a missing
\* key x stores x with an empty set.  The graph after the keys have been read.
Touch(keys) ==
    [x \in DOMAIN connection_graph \cup keys |-> Neighbors(x)]

\* The keys calculate_connections_in_house reads: people_list[i] for every i
\* with a j after it.
HouseReads(people_in_house) ==
    {people_in_house[i] : i \in 1..(Len(people_in_house) - 1)}

\* The keys _calculate_total_score reads.
ScoreReads(a) ==
    UNION {HouseReads(a[h]) : h \in 1..Len(a)}

\* The keys calculate_person_priority reads: person, once the pool holds
\* another name (other != person and other in connection_graph[person]).
PriorityReads(person, people_pool) ==
    IF \E k \in 1..Len(people_pool) : people_pool[k] # person THEN {person} ELSE {}

\* The keys _calculate_cluster_bonus reads.
ClusterBonusReads(person, people_pool) ==
    IF person \notin people THEN {}
    ELSE LET Connected(other) == other # person /\ other \in Neighbors(person)
         IN  PriorityReads(person, people_pool)
                 \cup HouseReads(SelectSeq(people_pool, Connected))

-----------------------------------------------------------------------------
(* Construction strategies.  Each takes the list as shuffled by random.shuffle. *)

\* _fill_first_assignment, after people_copy has been shuffled.  current_house
\* is kept across persons; the while-else breaks out once it reaches 3.
RECURSIVE FillFirstLoop(_, _, _, _)
FillFirstLoop(people_copy, k, current_house, a) ==
    IF k > Len(people_copy) THEN a
    ELSE IF current_house >= NumHouses THEN a
    ELSE IF current_house + 1 > Len(house_capacities) THEN IndexError
    ELSE IF Len(a[current_house + 1]) < house_capacities[current_house + 1]
         THEN FillFirstLoop(people_copy, k + 1, current_house,
                            [a EXCEPT ![current_house + 1] = Append(@, people_copy[k])])
         ELSE FillFirstLoop(people_copy, k, current_house + 1, a)

_fill_first_assignment(people_copy) ==
    FillFirstLoop(people_copy, 1, 0, EmptyAssignment)

\* _smart_assignment_strategy, the loop over range(3) for one person:
\* best is <<best_house, best_gain>>, replaced on a strictly larger gain.
RECURSIVE SmartHouseLoop(_, _, _, _)
SmartHouseLoop(a, person, house_idx, best) ==
    IF house_idx >= NumHouses THEN best
    ELSE IF house_idx + 1 > Len(house_capacities) THEN IndexError
    ELSE IF Len(a[house_idx + 1]) < house_capacities[house_idx + 1]
         THEN LET current_connections == calculate_connections_in_house(a[house_idx + 1])
                  test_house == Append(a[house_idx + 1], person)
                  new_connections == calculate_connections_in_house(test_house)
                  gain == new_connections - current_connections
              IN  SmartHouseLoop(a, person, house_idx + 1,
                                 IF gain > best[2] THEN <<house_idx, gain>> ELSE best)
         ELSE SmartHouseLoop(a, person, house_idx + 1, best)

\* house_spaces.sort(reverse=True), then the first entry with space > 0:
\* the largest (space, house_idx) pair, -1 when no house has space.
MostSpaceHouse(a) ==
    LET house_spaces == {<<house_capacities[i + 1] - Len(a[i + 1]), i>> :
                            i \in 0..(NumHouses - 1)}
        open == {t \in house_spaces : t[1] > 0}
    IN  IF open = {} THEN -1
        ELSE (CHOOSE t \in open :
                 \A u \in open : u[1] < t[1] \/ (u[1] = t[1] /\ u[2] <= t[2]))[2]

RECURSIVE SmartLoop(_, _, _)
SmartLoop(people_copy, k, a) ==
    IF k > Len(people_copy) THEN a
    ELSE LET person == people_copy[k] IN
         IF person \notin people THEN SmartLoop(people_copy, k + 1, a)
         ELSE LET best == SmartHouseLoop(a, person, 0, <<-1, -1>>) IN
              IF best = IndexError THEN IndexError
              ELSE LET best_house == IF best[1] = -1 THEN MostSpaceHouse(a)
                                     ELSE best[1]
                   IN  IF best_house >= 0
                       THEN SmartLoop(people_copy, k + 1,
                                      [a EXCEPT ![best_house + 1] = Append(@, person)])
                       ELSE SmartLoop(people_copy, k + 1, a)

_smart_assignment_strategy(people_copy) ==
    SmartLoop(people_copy, 1, EmptyAssignment)

\* The keys the loop over range(3) reads for one person: the members of every
\* house with room (calculate_connections_in_house of the house and of the
\* house with the person added), up to the house whose capacity is missing.
SmartHouseReads(a) ==
    UNION {Range(a[h]) : h \in {g \in 1..Min(NumHouses, Len(house_capacities)) :
                                   Len(a[g]) < house_capacities[g]}}

\* The keys _smart_assignment_strategy reads, up to its return or its raise.
RECURSIVE SmartReads(_, _, _, _)
SmartReads(people_copy, k, a, keys) ==
    IF k > Len(people_copy) THEN keys
    ELSE LET person == people_copy[k] IN
         IF person \notin people THEN SmartReads(people_copy, k + 1, a, keys)
         ELSE LET best == SmartHouseLoop(a, person, 0, <<-1, -1>>)
                  read == keys \cup SmartHouseReads(a)
              IN  IF best = IndexError THEN read
                  ELSE LET best_house == IF best[1] = -1 THEN MostSpaceHouse(a)
                                         ELSE best[1]
                       IN  IF best_house >= 0
                           THEN SmartReads(people_copy, k + 1,
                                           [a EXCEPT ![best_house + 1] = Append(@, person)],
                                           read)
                           ELSE SmartReads(people_copy, k + 1, a, read)

\* _cluster_assignment_strategy, the seed: the index of the first registered
\* person whose priority in the pool is the largest and above 0; 0 for None.
ClusterSeed(remaining_people) ==
    LET K == {k \in 1..Len(remaining_people) : remaining_people[k] \in people}
        pri(k) == calculate_person_priority(remaining_people[k], remaining_people)
        S == {k \in K : /\ pri(k) > 0
                        /\ \A m \in K : pri(m) <= pri(k)
                        /\ \A m \in K : m < k => pri(m) < pri(k)}
    IN  IF S = {} THEN 0 ELSE CHOOSE k \in S : TRUE

\* The pick into the house being filled: the first registered person of
\* remaining_people with the most house members that list it as a neighbour;
\* remaining_people[0] when no remaining person is registered.
ClusterBestPerson(house, remaining_people) ==
    LET K == {k \in 1..Len(remaining_people) : remaining_people[k] \in people}
        sc(k) == Cardinality({m \in 1..Len(house) :
                                 remaining_people[k] \in Neighbors(house[m])})
    IN  IF K = {} THEN remaining_people[1]
        ELSE remaining_people[CHOOSE k \in K :
                                 /\ \A m \in K : sc(m) <= sc(k)
                                 /\ \A m \in K : m < k => sc(m) < sc(k)]

\* The fill loop.  `if best_person:` is false for the empty name: nothing is
\* appended or removed and the while loop goes round for ever.
RECURSIVE ClusterFill(_, _, _)
ClusterFill(a, remaining_people, house_idx) ==
    IF house_idx >= NumHouses THEN a
    ELSE IF house_idx + 1 > Len(house_capacities) THEN IndexError
    ELSE IF /\ Len(a[house_idx + 1]) < house_capacities[house_idx + 1]
            /\ remaining_people # <<>>
         THEN LET best_person == ClusterBestPerson(a[house_idx + 1], remaining_people)
              IN  IF best_person = "" THEN NeverReturns
                  ELSE ClusterFill([a EXCEPT ![house_idx + 1] = Append(@, best_person)],
                                   RemoveFirst(remaining_people, best_person), house_idx)
         ELSE ClusterFill(a, remaining_people, house_idx + 1)

\* people_copy is the shuffle _fill_first_assignment draws when there is no seed.
_cluster_assignment_strategy(people_list, people_copy) ==
    LET seed == ClusterSeed(people_list) IN
    IF seed = 0 THEN _fill_first_assignment(people_copy)
    ELSE LET seed_person == people_list[seed]
         IN  ClusterFill([EmptyAssignment EXCEPT ![1] = <<seed_person>>],
                         RemoveFirst(people_list, seed_person), 0)

\* The keys the fill loop reads: connection_graph[house_member] for every
\* member of the house being filled, whenever a registered person remains.
RECURSIVE ClusterFillReads(_, _, _, _)
ClusterFillReads(a, remaining_people, house_idx, keys) ==
    IF house_idx >= NumHouses THEN keys
    ELSE IF house_idx + 1 > Len(house_capacities) THEN keys
    ELSE IF /\ Len(a[house_idx + 1]) < house_capacities[house_idx + 1]
            /\ remaining_people # <<>>
         THEN LET best_person == ClusterBestPerson(a[house_idx + 1], remaining_people)
                  read == IF \E k \in 1..Len(remaining_people) :
                                remaining_people[k] \in people
                          THEN Range(a[house_idx + 1]) ELSE {}
              IN  IF best_person = "" THEN keys \cup read
                  ELSE ClusterFillReads(
                           [a EXCEPT ![house_idx + 1] = Append(@, best_person)],
                           RemoveFirst(remaining_people, best_person), house_idx,
                           keys \cup read)
         ELSE ClusterFillReads(a, remaining_people, house_idx + 1, keys)

\* The keys _cluster_assignment_strategy reads, up to its return or its raise:
\* the priorities of the seed loop, then the fill loop.
ClusterReads(people_list) ==
    LET seed == ClusterSeed(people_list)
        seed_reads == UNION {PriorityReads(people_list[k], people_list) :
                                k \in {m \in 1..Len(people_list) :
                                          people_list[m] \in people}}
    IN  IF seed = 0 THEN seed_reads
        ELSE ClusterFillReads([EmptyAssignment EXCEPT ![1] = <<people_list[seed]>>],
                              RemoveFirst(people_list, people_list[seed]), 0, seed_reads)

\* _random_assignment (house_assignment_solver.py): each person of the shuffled
\* list goes to one of the open houses with the fewest members, drawn by
\* random.choice.  The set of assignments the draws can produce.
RECURSIVE RandomAssignmentLoop(_, _, _)
RandomAssignmentLoop(people_copy, k, a) ==
    IF k > Len(people_copy) THEN {a}
    ELSE IF Len(house_capacities) < Len(a) THEN {IndexError}
    ELSE LET available_houses == {i \in 0..(Len(a) - 1) :
                                     Len(a[i + 1]) < house_capacities[i + 1]}
             priority_houses == {i \in available_houses :
                                    \A i2 \in available_houses :
                                        Len(a[i + 1]) <= Len(a[i2 + 1])}
         IN  IF available_houses = {} THEN RandomAssignmentLoop(people_copy, k + 1, a)
             ELSE UNION {RandomAssignmentLoop(
                             people_copy, k + 1,
                             [a EXCEPT ![house_id + 1] = Append(@, people_copy[k])]) :
                         house_id \in priority_houses}

_random_assignment(people_copy) ==
    RandomAssignmentLoop(people_copy, 1, EmptyAssignment)

-----------------------------------------------------------------------------
(* _local_search.  One pass is the body of the while loop.  Its state st is *)
(* [ca, best_move, best_new_score, err, keys]: the working lists, the best  *)
(* move seen, its score, whether reading house_capacities raised, and the   *)
(* keys of connection_graph the trials' scores have read.  A move is None, *)
(* <<"swap", i, j, person_i, person_j>> or <<"move", i, j, person>>.  The   *)
(* for                                                                      *)
(* loops run over the lists they edit: a list iterator holds an index into  *)
(* the live list, and every trial removes the person and appends it again.  *)

SwapIn(ca, i, j, person_i, person_j) ==
    [ca EXCEPT ![i + 1] = Append(RemoveFirst(@, person_i), person_j),
               ![j + 1] = Append(RemoveFirst(@, person_j), person_i)]

MoveIn(ca, i, j, person) ==
    [ca EXCEPT ![i + 1] = RemoveFirst(@, person),
               ![j + 1] = Append(@, person)]

\* A comparison that lets a trial count on a tie: with it _local_search
\* applies moves that gain nothing.
ImprovesOrTies(new_score, best_new_score) == new_score >= best_new_score

\* A trial counts when it beats the best score seen so far in the pass.
Improves(new_score, best_new_score) == new_score > best_new_score

\* for person_j in current_assignment[j]: idx_j is the iterator's index.
RECURSIVE SwapLoopJ(_, _, _, _, _)
SwapLoopJ(st, i, j, person_i, idx_j) ==
    IF st.err \/ idx_j >= Len(st.ca[j + 1]) THEN st
    ELSE LET person_j == st.ca[j + 1][idx_j + 1] IN
         IF i + 1 > Len(house_capacities) THEN [st EXCEPT !.err = TRUE]
         ELSE IF ~(Len(st.ca[i + 1]) <= house_capacities[i + 1])
              THEN SwapLoopJ(st, i, j, person_i, idx_j + 1)
         ELSE IF j + 1 > Len(house_capacities) THEN [st EXCEPT !.err = TRUE]
         ELSE IF ~(Len(st.ca[j + 1]) <= house_capacities[j + 1])
              THEN SwapLoopJ(st, i, j, person_i, idx_j + 1)
         ELSE LET swapped == SwapIn(st.ca, i, j, person_i, person_j)
                  new_score == _calculate_total_score(swapped)
                  better == Improves(new_score, st.best_new_score)
                  undone == SwapIn(swapped, i, j, person_j, person_i)
              IN  SwapLoopJ([st EXCEPT
                                !.ca = undone,
                                !.keys = @ \cup ScoreReads(swapped),
                                !.best_new_score = IF better THEN new_score ELSE @,
                                !.best_move = IF better
                                              THEN <<"swap", i, j, person_i, person_j>>
                                              ELSE @],
                            i, j, person_i, idx_j + 1)

\* for person_i in current_assignment[i]
RECURSIVE SwapLoopI(_, _, _, _)
SwapLoopI(st, i, j, idx_i) ==
    IF st.err \/ idx_i >= Len(st.ca[i + 1]) THEN st
    ELSE SwapLoopI(SwapLoopJ(st, i, j, st.ca[i + 1][idx_i + 1], 0), i, j, idx_i + 1)

\* Strategy 1: for i in range(3): for j in range(i + 1, 3)
RECURSIVE SwapPairs(_, _, _)
SwapPairs(st, i, j) ==
    IF st.err \/ i >= NumHouses THEN st
    ELSE IF j >= NumHouses THEN SwapPairs(st, i + 1, i + 2)
    ELSE IF st.ca[i + 1] = <<>> \/ st.ca[j + 1] = <<>> THEN SwapPairs(st, i, j + 1)
    ELSE SwapPairs(SwapLoopI(st, i, j, 0), i, j + 1)

\* for person in current_assignment[i]: try the move to house j, undo it.
RECURSIVE MoveLoop(_, _, _, _)
MoveLoop(st, i, j, idx) ==
    IF idx >= Len(st.ca[i + 1]) THEN st
    ELSE LET person == st.ca[i + 1][idx + 1]
             moved == MoveIn(st.ca, i, j, person)
             new_score == _calculate_total_score(moved)
             better == Improves(new_score, st.best_new_score)
             undone == MoveIn(moved, j, i, person)
         IN  MoveLoop([st EXCEPT
                          !.ca = undone,
                          !.keys = @ \cup ScoreReads(moved),
                          !.best_new_score = IF better THEN new_score ELSE @,
                          !.best_move = IF better THEN <<"move", i, j, person>> ELSE @],
                      i, j, idx + 1)

\* Strategy 2 without its test for spare capacity in house j: with it a move
\* can put a person into a full house.
RECURSIVE MovePairsAnyHouse(_, _, _)
MovePairsAnyHouse(st, i, j) ==
    IF st.err \/ i >= NumHouses THEN st
    ELSE IF j >= NumHouses THEN MovePairsAnyHouse(st, i + 1, 0)
    ELSE IF i = j \/ st.ca[i + 1] = <<>> THEN MovePairsAnyHouse(st, i, j + 1)
    ELSE MovePairsAnyHouse(MoveLoop(st, i, j, 0), i, j + 1)

\* Strategy 2: for i in range(3): for j in range(3)
RECURSIVE MovePairs(_, _, _)
MovePairs(st, i, j) ==
    IF st.err \/ i >= NumHouses THEN st
    ELSE IF j >= NumHouses THEN MovePairs(st, i + 1, 0)
    ELSE IF i = j \/ st.ca[i + 1] = <<>> THEN MovePairs(st, i, j + 1)
    ELSE IF j + 1 > Len(house_capacities) THEN [st EXCEPT !.err = TRUE]
    ELSE IF Len(st.ca[j + 1]) >= house_capacities[j + 1] THEN MovePairs(st, i, j + 1)
    ELSE MovePairs(MoveLoop(st, i, j, 0), i, j + 1)

\* An applied move that appends the person to house j and leaves it in house
\* i too: with it one person is in two houses.
ApplyMoveKeeping(ca, best_move) ==
    IF best_move = None THEN ca
    ELSE IF best_move[1] = "swap"
         THEN SwapIn(ca, best_move[2], best_move[3], best_move[4], best_move[5])
         ELSE [ca EXCEPT ![best_move[3] + 1] = Append(@, best_move[4])]

\* Apply best move found
ApplyMove(ca, best_move) ==
    IF best_move = None THEN ca
    ELSE IF best_move[1] = "swap"
         THEN SwapIn(ca, best_move[2], best_move[3], best_move[4], best_move[5])
         ELSE MoveIn(ca, best_move[2], best_move[3], best_move[4])

\* A pass that starts one below the current score: with it a move that only
\* keeps the score is applied, and the search goes on without a gain.
PassStartBelow(ca, cur_score) ==
    [ca |-> ca, best_move |-> None, best_new_score |-> cur_score - 1, err |-> FALSE,
     keys |-> {}]

\* best_move = None, best_new_score = current_score
PassStart(ca, cur_score) ==
    [ca |-> ca, best_move |-> None, best_new_score |-> cur_score, err |-> FALSE,
     keys |-> {}]

\* A pass that tries moves only, never a swap: with it a trial can end below
\* the best score.
LocalSearchPassMovesOnly(ca, cur_score) ==
    LET st == MovePairs(PassStart(ca, cur_score), 0, 0)
    IN  [ca |-> ApplyMove(st.ca, st.best_move),
         score |-> IF st.best_move = None THEN cur_score ELSE st.best_new_score,
         improved |-> st.best_move # None,
         best_move |-> st.best_move,
         err |-> st.err,
         keys |-> st.keys]

\* One pass of solver.py's _local_search: both strategies, then the best move.
LocalSearchPass(ca, cur_score) ==
    LET st == MovePairs(SwapPairs(PassStart(ca, cur_score), 0, 1), 0, 0)
    IN  [ca |-> ApplyMove(st.ca, st.best_move),
         score |-> IF st.best_move = None THEN cur_score ELSE st.best_new_score,
         improved |-> st.best_move # None,
         best_move |-> st.best_move,
         err |-> st.err,
         keys |-> st.keys]

\* One pass of house_assignment_solver.py's _local_search: swaps only.
LocalSearchPassSwapOnly(ca, cur_score) ==
    LET st == SwapPairs(PassStart(ca, cur_score), 0, 1)
    IN  [ca |-> ApplyMove(st.ca, st.best_move),
         score |-> IF st.best_move = None THEN cur_score ELSE st.best_new_score,
         improved |-> st.best_move # None,
         best_move |-> st.best_move,
         err |-> st.err,
         keys |-> st.keys]

\* max_iterations of the two _local_search functions
MaxPassesSolver == 50

MaxPassesOptimizer == 100

-----------------------------------------------------------------------------
(* Overflow selection (solver.py) *)

\* person_scores.sort(key=score, reverse=True): a stable sort, so entries of
\* equal score keep their order.  An entry is <<person, score>>.
RECURSIVE InsertByScore(_, _)
InsertByScore(sorted, e) ==
    IF sorted = <<>> THEN <<e>>
    ELSE IF Head(sorted)[2] >= e[2] THEN <<Head(sorted)>> \o InsertByScore(Tail(sorted), e)
    ELSE <<e>> \o sorted

RECURSIVE SortByScoreDesc(_)
SortByScoreDesc(list) ==
    IF list = <<>> THEN <<>>
    ELSE InsertByScore(SortByScoreDesc(SubSeq(list, 1, Len(list) - 1)), list[Len(list)])

\* individual_connections + cluster_bonus * 0.5, kept as an integer by
\* doubling it: the order of two scores is the order of their doubles.
PriorityScore2(person, people_list) ==
    2 * calculate_person_priority(person, people_list)
        + _calculate_cluster_bonus(person, people_list)

_improved_priority_selection(people_list, max_people) ==
    LET Registered(p) == p \in people
        known == SelectSeq(people_list, Registered)
        person_scores == [k \in 1..Len(known) |->
                             <<known[k], PriorityScore2(known[k], people_list)>>]
        ordered == SortByScoreDesc(person_scores)
        kept == SliceTo(ordered, max_people)
    IN  [k \in 1..Len(kept) |-> kept[k][1]]

\* The keys _improved_priority_selection reads: both factors of every
\* registered person.
ImprovedPriorityReads(people_list) ==
    UNION {PriorityReads(people_list[k], people_list)
               \cup ClusterBonusReads(people_list[k], people_list) :
              k \in {m \in 1..Len(people_list) : people_list[m] \in people}}

\* itertools.combinations(range(n), r) in its order: the first tuple of
\* positions, and the one after c (None after the last).
FirstCombination(n, r) == IF r > n THEN None ELSE [k \in 1..r |-> k]

NextCombination(c, n) ==
    LET r == Len(c)
        movable == {q \in 1..r : c[q] < n - r + q}
    IN  IF movable = {} THEN None
        ELSE LET q == CHOOSE q \in movable : \A q2 \in movable : q2 <= q
             IN  [k \in 1..r |-> IF k < q THEN c[k] ELSE c[q] + 1 + (k - q)]

\* test_people = [p for p in people_to_select if p not in people_to_remove]
TestPeople(people_list, c) ==
    LET people_to_remove == {people_list[c[k]] : k \in 1..Len(c)}
        Kept(p) == p \notin people_to_remove
    IN  SelectSeq(people_list, Kept)

\* The cluster strategy gave no assignment: it raised or never returns.
Failed(a) == a = IndexError \/ a = NeverReturns

\* The scores the quick evaluation of test_people can give: one, unless the
\* cluster strategy finds no seed and falls back to the shuffled fill-first;
\* IndexError or NeverReturns when the strategy gives no assignment.
QuickScores(test_people) ==
    LET Score(a) == IF Failed(a) THEN a ELSE _calculate_total_score(a)
    IN  IF ClusterSeed(test_people) # 0
        THEN {Score(_cluster_assignment_strategy(test_people, test_people))}
        ELSE {Score(_cluster_assignment_strategy(test_people, sh)) :
                 sh \in Shuffles(test_people)}

\* The quick evaluation of test_people with the keys it reads: the pairs
\* <<test_score, keys>> it can give.
QuickOutcomes(test_people) ==
    LET Outcome(a) == IF Failed(a) THEN <<a, ClusterReads(test_people)>>
                      ELSE <<_calculate_total_score(a),
                             ClusterReads(test_people) \cup ScoreReads(a)>>
    IN  IF ClusterSeed(test_people) # 0
        THEN {Outcome(_cluster_assignment_strategy(test_people, test_people))}
        ELSE {Outcome(_cluster_assignment_strategy(test_people, sh)) :
                 sh \in Shuffles(test_people)}

\* max_combinations of _try_multiple_combinations (excess_count <= 4 there)
MaxCombinations == 100

\* The loop of _try_multiple_combinations from combination c on; B is the set
\* of <<best_score, best_combination, keys, ended>> the quick evaluations so
\* far can have left, keys being the keys of connection_graph read so far and
\* ended telling how the last evaluation ended: None with a score, IndexError
\* or NeverReturns.
RECURSIVE TryCombinationsLoop(_, _, _, _)
TryCombinationsLoop(people_list, c, combination_count, B) ==
    IF \/ \E b \in B : b[4] # None
       \/ c = None \/ combination_count > MaxCombinations THEN B
    ELSE LET test_people == TestPeople(people_list, c)
             outcomes == QuickOutcomes(test_people)
             a == _cluster_assignment_strategy(test_people, test_people)
         IN  TryCombinationsLoop(
                 people_list, NextCombination(c, Len(people_list)),
                 combination_count + 1,
                 IF Failed(a)
                 THEN {<<b[1], b[2], b[3] \cup ClusterReads(test_people), a>> :
                          b \in B}
                 ELSE {IF o[1] > b[1]
                       THEN <<o[1], <<test_people>>, b[3] \cup o[2], None>>
                       ELSE <<b[1], b[2], b[3] \cup o[2], None>> :
                          b \in B, o \in outcomes})

\* What _try_multiple_combinations can do: the pairs <<list, keys>> of the
\* list returned (IndexError for a raise, NeverReturns for a call that does
\* not end) and the keys read.
TryCombinationsOutcomes(people_list, max_people) ==
    LET excess_count == Len(people_list) - max_people
        B == TryCombinationsLoop(people_list,
                                 FirstCombination(Len(people_list), excess_count),
                                 1, {<<-1, None, {}, None>>})
    IN  {IF b[4] # None THEN <<b[4], b[3]>>
         ELSE IF b[2] = None
         THEN <<_improved_priority_selection(people_list, max_people),
                b[3] \cup ImprovedPriorityReads(people_list)>>
         ELSE <<b[2][1], b[3]>> : b \in B}

\* The lists _try_multiple_combinations can return.
_try_multiple_combinations(people_list, max_people) ==
    {o[1] : o \in TryCombinationsOutcomes(people_list, max_people)}

\* The list sizes that send select_best_people to the exhaustive search
ExhaustiveFrom == 19

ExhaustiveTo == 15

\* top_count of _exhaustive_combination_search
TopCount == 20

\* Check if all people exist: the registered names of the list, in order.
FilterRegistered(people_list) ==
    LET Registered(p) == p \in people IN SelectSeq(people_list, Registered)

\* Phase 1 of _exhaustive_combination_search from combination c on: the
\* combinations it evaluates, up to the first whose quick evaluation raises
\* or never returns.
RECURSIVE Screened(_, _)
Screened(people_list, c) ==
    IF c = None THEN {}
    ELSE LET t == TestPeople(people_list, c) IN
         IF Failed(_cluster_assignment_strategy(t, t)) THEN {c}
         ELSE {c} \cup Screened(people_list, NextCombination(c, Len(people_list)))

\* select_best_people, _exhaustive_combination_search and the
\* optimize_assignment of its phase 2 call one another: one recursive operator
\* with the function called as its first argument.
\*
\* "select_best_people": the lists it can return (IndexError for a raise,
\* NeverReturns for a call that does not end).
\*
\* "_exhaustive_combination_search": phase 1 quick-scores every combination
\* and keeps the TopCount best; phase 2 runs a full optimize_assignment (200
\* randomized trials) on each and returns the first with the highest score.
\* What it can give: IndexError or NeverReturns of the first evaluation that
\* fails; test_people of every combination that fewer than TopCount others are
\* certain to precede, when no combination certain to be among the TopCount
\* best is bound to fail in phase 2.
\*
\* "optimize_assignment": temp_solver.optimize_assignment(people_list,
\* iterations=200) of phase 2, on a solver built from the same capacities and
\* relationships (max_people is sum(house_capacities)).  It selects again
\* when people_list are more than the places (select_best_people, which
\* keeps unregistered names) and filters the registered names otherwise.
\* The ways it can end: the failure of the inner selection; None when it
\* returns; IndexError when a capacity is missing (the first trial,
\* _smart_assignment_strategy, reads it for a registered person, the second,
\* fill-first and _local_search, for any other); NeverReturns when the
\* second trial (_cluster_assignment_strategy) does not end.
RECURSIVE Selection(_, _, _)
Selection(called, people_list, max_people) ==
    IF called = "select_best_people"
    THEN IF Len(people_list) <= max_people THEN {people_list}
         ELSE IF Len(people_list) = ExhaustiveFrom /\ max_people = ExhaustiveTo
              THEN Selection("_exhaustive_combination_search", people_list, max_people)
         ELSE IF Len(people_list) - max_people <= 4
              THEN _try_multiple_combinations(people_list, max_people)
         ELSE {_improved_priority_selection(people_list, max_people)}
    ELSE IF called = "_exhaustive_combination_search"
    THEN LET n == Len(people_list)
             excess_count == n - max_people
             combos == Screened(people_list, FirstCombination(n, excess_count))
             Quick(c) == _cluster_assignment_strategy(TestPeople(people_list, c),
                                                      TestPeople(people_list, c))
             Lo(c) == CHOOSE x \in QuickScores(TestPeople(people_list, c)) :
                          \A y \in QuickScores(TestPeople(people_list, c)) : x <= y
             Hi(c) == CHOOSE x \in QuickScores(TestPeople(people_list, c)) :
                          \A y \in QuickScores(TestPeople(people_list, c)) : x >= y
             top == {c \in combos :
                        Cardinality({d \in combos : Lo(d) > Hi(c)}) < TopCount}
             certain == {c \in combos :
                            Cardinality({d \in combos \ {c} : Hi(d) >= Lo(c)}) < TopCount}
             Full(c) == Selection("optimize_assignment", TestPeople(people_list, c),
                                  SumSeq(house_capacities))
         IN  IF \E c \in combos : Failed(Quick(c))
             THEN {Quick(c) : c \in {d \in combos : Failed(Quick(d))}}
             ELSE IF top = {}
                  THEN {_improved_priority_selection(people_list, max_people)}
             ELSE UNION {Full(c) \ {None} : c \in top}
                      \cup (IF \E c \in certain : None \notin Full(c) THEN {}
                            ELSE {TestPeople(people_list, c) :
                                     c \in {d \in top : None \in Full(d)}})
    ELSE LET selections == IF Len(people_list) > max_people
                           THEN Selection("select_best_people", people_list, max_people)
                           ELSE {FilterRegistered(people_list)}
             Trials(selected) ==
                 IF Failed(selected) THEN selected
                 ELSE IF selected = <<>> THEN None
                 ELSE IF Len(house_capacities) < NumHouses THEN IndexError
                 ELSE IF _cluster_assignment_strategy(selected, selected)
                             = NeverReturns
                      THEN NeverReturns
                 ELSE None
         IN  {Trials(selected) : selected \in selections}

\* Phase 2 for one combination: temp_solver.optimize_assignment(test_people,
\* iterations=200), the ways it can end.
FullOptimization(test_people) ==
    Selection("optimize_assignment", test_people, SumSeq(house_capacities))

\* _exhaustive_combination_search: what it can give.
_exhaustive_combination_search(people_list, max_people) ==
    Selection("_exhaustive_combination_search", people_list, max_people)

\* select_best_people (solver.py): the lists it can return.
select_best_people(people_list, max_people) ==
    Selection("select_best_people", people_list, max_people)

\* The key sets phase 1 of _exhaustive_combination_search can read: one quick
\* evaluation per combination it reaches.  Phase 2 runs on a solver of its
\* own.
ExhaustiveReads(people_list, max_people) ==
    LET n == Len(people_list)
        excess_count == n - max_people
        combos == Screened(people_list, FirstCombination(n, excess_count))
        Keys(c) == {o[2] : o \in QuickOutcomes(TestPeople(people_list, c))}
    IN  {UNION {f[c] : c \in combos} :
            f \in {g \in [combos -> UNION {Keys(c) : c \in combos}] :
                      \A c \in combos : g[c] \in Keys(c)}}

\* select_best_people (solver.py) with the keys it reads: the pairs
\* <<list, keys>> it can give (IndexError for a raise, NeverReturns for a
\* call that does not end).
SelectOutcomes(people_list, max_people) ==
    IF Len(people_list) <= max_people THEN {<<people_list, {}>>}
    ELSE IF Len(people_list) = ExhaustiveFrom /\ max_people = ExhaustiveTo
         THEN {<<l, keys>> :
                  l \in _exhaustive_combination_search(people_list, max_people),
                  keys \in ExhaustiveReads(people_list, max_people)}
    ELSE IF Len(people_list) - max_people <= 4
         THEN TryCombinationsOutcomes(people_list, max_people)
    ELSE {<<_improved_priority_selection(people_list, max_people),
            ImprovedPriorityReads(people_list)>>}

\* select_best_people (house_assignment_solver.py): the registered people by
\* priority, the first max_people of them.
Optimizer_select_best_people(people_list, max_people) ==
    IF Len(people_list) <= max_people THEN people_list
    ELSE LET Registered(p) == p \in people
             known == SelectSeq(people_list, Registered)
             person_scores == [k \in 1..Len(known) |->
                                  <<known[k],
                                    calculate_person_priority(known[k], people_list)>>]
             ordered == SortByScoreDesc(person_scores)
             kept == SliceTo(ordered, max_people)
         IN  [k \in 1..Len(kept) |-> kept[k][1]]

\* The keys select_best_people (house_assignment_solver.py) reads: the
\* priority of every registered person.
Optimizer_select_reads(people_list, max_people) ==
    IF Len(people_list) <= max_people THEN {}
    ELSE UNION {PriorityReads(people_list[k], people_list) :
                   k \in {m \in 1..Len(people_list) : people_list[m] \in people}}

\* Adaptive iteration count based on problem size
AdaptiveIterations(n) == IF n <= 8 THEN 150 ELSE IF n <= 12 THEN 300 ELSE 500

\* A threshold of half the budget: with it the loop runs on after a quarter
\* of the budget has passed without a gain.
EarlyStopThresholdHalf(n) == Min(50, n \div 2)

\* early_stop_threshold = min(50, iterations // 4)
EarlyStopThreshold(n) == Min(50, n \div 4)

\* iterations of greedy_optimize when the caller gives none
GreedyDefaultIterations == 1000

-----------------------------------------------------------------------------
(* The calls, step by step *)

inputs == <<impl, characters, iterations_arg, capacities_arg, relationships>>

task == <<now, checks, reset_log>>

users == <<user_files, last_op, task, handlers>>

object == <<house_capacities, people, connection_graph>>

registry == <<house_capacities, people>>

search == <<current_assignment, current_score, ls_iterations, improved>>

trial == <<assignment, score>>

best == <<best_assignment, best_score, no_improvement_count>>

\* The exception leaves the call after the keys have been read: nothing is
\* returned.
RaiseAfter(keys) ==
    /\ pc' = "raised"
    /\ connection_graph' = Touch(keys)
    /\ UNCHANGED <<users, inputs, registry, people_to_select, selected_people, iterations,
                   iteration, trial, search, best, result, reply, first_result>>

\* The call is in a loop it does not leave: it never returns.
HangAfter(keys) ==
    /\ pc' = "hung"
    /\ connection_graph' = Touch(keys)
    /\ UNCHANGED <<users, inputs, registry, people_to_select, selected_people, iterations,
                   iteration, trial, search, best, result, reply, first_result>>

\* _local_search entered with the trial's assignment a.
EnterLocalSearch(a) ==
    /\ assignment' = a
    /\ score' = _calculate_total_score(a)
    /\ current_assignment' = a
    /\ current_score' = _calculate_total_score(a)
    /\ improved' = TRUE
    /\ ls_iterations' = 0
    /\ pc' = "refine"

\* optimize_assignment up to the trial loop: selection or filtering, the
\* short-circuit on an empty list, the trial budget.
OptimizeAssignmentStart ==
    /\ pc = "call" /\ impl = "solver"
    /\ LET max_people == SumSeq(house_capacities) IN
       \E o \in (IF Len(people_to_select) > max_people
                 THEN SelectOutcomes(people_to_select, max_people)
                 ELSE {<<FilterRegistered(people_to_select), {}>>}) :
          LET sel == o[1] IN
          IF sel = IndexError THEN RaiseAfter(o[2])
          ELSE IF sel = NeverReturns THEN HangAfter(o[2])
          ELSE IF sel = <<>>
          THEN /\ selected_people' = sel
               /\ result' = <<EmptyAssignment, 0>>
               /\ pc' = "done"
               /\ connection_graph' = Touch(o[2])
               /\ UNCHANGED <<users, inputs, registry, people_to_select, iterations,
                              iteration, trial, search, best, reply, first_result>>
          ELSE /\ selected_people' = sel
               /\ connection_graph' = Touch(o[2])
               /\ iterations' = IF iterations_arg = None
                                THEN AdaptiveIterations(Len(sel))
                                ELSE iterations_arg[1]
               /\ iteration' = 0
               /\ best_assignment' = None
               /\ best_score' = 0
               /\ no_improvement_count' = 0
               /\ pc' = IF iterations' > 0 THEN "construct" ELSE "finish"
               /\ UNCHANGED <<users, inputs, registry, people_to_select, trial, search,
                              result, reply, first_result>>

\* One trial's construction: the strategy follows iteration % 3.
OptimizeAssignmentConstruct ==
    /\ pc = "construct" /\ impl = "solver"
    /\ \E people_copy \in Shuffles(selected_people) :
          LET a == IF iteration % 3 = 0
                   THEN _smart_assignment_strategy(people_copy)
                   ELSE IF iteration % 3 = 1
                   THEN _cluster_assignment_strategy(selected_people, people_copy)
                   ELSE _fill_first_assignment(people_copy)
              keys == IF iteration % 3 = 0
                      THEN SmartReads(people_copy, 1, EmptyAssignment, {})
                      ELSE IF iteration % 3 = 1
                      THEN ClusterReads(selected_people)
                      ELSE {}
          IN  IF a = IndexError THEN RaiseAfter(keys)
              ELSE IF a = NeverReturns THEN HangAfter(keys)
              ELSE /\ EnterLocalSearch(a)
                   /\ connection_graph' = Touch(keys \cup ScoreReads(a))
                   /\ UNCHANGED <<users, inputs, registry, people_to_select, selected_people,
                                  iterations, iteration, best, result, reply,
                                  first_result>>

\* One pass of the while loop of solver.py's _local_search.
SolverLocalSearchPass ==
    /\ pc = "refine" /\ impl = "solver"
    /\ improved /\ ls_iterations < MaxPassesSolver
    /\ LET r == LocalSearchPass(current_assignment, current_score) IN
       IF r.err THEN RaiseAfter(r.keys)
       ELSE /\ current_assignment' = r.ca
            /\ current_score' = r.score
            /\ improved' = r.improved
            /\ ls_iterations' = ls_iterations + 1
            /\ connection_graph' = Touch(r.keys)
            /\ UNCHANGED <<users, inputs, registry, people_to_select, selected_people,
                           iterations, iteration, trial, best, result, reply,
                           first_result, pc>>

\* _local_search returns; the trial's result is compared with the best so far
\* and the loop goes on, stops early or runs out.
OptimizeAssignmentAccept ==
    /\ pc = "refine" /\ impl = "solver"
    /\ ~(improved /\ ls_iterations < MaxPassesSolver)
    /\ LET improved_assignment == current_assignment
           improved_score == current_score
           final_score == IF improved_score > score THEN improved_score ELSE score
           final_assignment == IF improved_score > score THEN improved_assignment
                               ELSE assignment
           early_stop_threshold == EarlyStopThreshold(iterations)
       IN  /\ IF final_score > best_score
              THEN /\ best_score' = final_score
                   /\ best_assignment' = final_assignment
                   /\ no_improvement_count' = 0
              ELSE /\ no_improvement_count' = no_improvement_count + 1
                   /\ UNCHANGED <<best_score, best_assignment>>
           /\ iteration' = iteration + 1
           /\ pc' = IF \/ no_improvement_count' >= early_stop_threshold
                       \/ iteration' >= iterations
                    THEN "finish" ELSE "construct"
    /\ UNCHANGED <<users, inputs, object, people_to_select, selected_people, iterations,
                   trial, search, result, reply, first_result>>

\* After the loop: the fill-first fallback when no trial scored above 0.
OptimizeAssignmentReturn ==
    /\ pc = "finish" /\ impl = "solver"
    /\ IF best_assignment = None
       THEN \E people_copy \in Shuffles(selected_people) :
               LET a == _fill_first_assignment(people_copy) IN
               IF a = IndexError THEN RaiseAfter({})
               ELSE /\ best_assignment' = a
                    /\ best_score' = _calculate_total_score(a)
                    /\ result' = <<a, _calculate_total_score(a)>>
                    /\ pc' = "done"
                    /\ connection_graph' = Touch(ScoreReads(a))
                    /\ UNCHANGED <<users, inputs, registry, people_to_select, selected_people,
                                   iterations, iteration, trial, search,
                                   no_improvement_count, reply, first_result>>
       ELSE /\ result' = <<best_assignment, best_score>>
            /\ pc' = "done"
            /\ UNCHANGED <<users, inputs, object, people_to_select, selected_people,
                           iterations, iteration, trial, search, best, reply,
                           first_result>>

\* greedy_optimize up to the trial loop.
GreedyOptimizeStart ==
    /\ pc = "call" /\ impl = "optimizer"
    /\ LET max_people == SumSeq(house_capacities)
           sel == IF Len(people_to_select) > max_people
                  THEN Optimizer_select_best_people(people_to_select, max_people)
                  ELSE FilterRegistered(people_to_select)
           keys == Optimizer_select_reads(people_to_select, max_people)
       IN  IF sel = <<>>
           THEN /\ selected_people' = sel
                /\ result' = <<None, 0>>
                /\ pc' = "done"
                /\ connection_graph' = Touch(keys)
                /\ UNCHANGED <<users, inputs, registry, people_to_select, iterations,
                               iteration, trial, search, best, reply, first_result>>
           ELSE /\ selected_people' = sel
                /\ connection_graph' = Touch(keys \cup Range(sel))
                /\ iterations' = IF iterations_arg = None THEN GreedyDefaultIterations
                                 ELSE iterations_arg[1]
                /\ iteration' = 0
                /\ best_assignment' = None
                /\ best_score' = 0
                /\ no_improvement_count' = 0
                /\ pc' = IF iterations' > 0 THEN "construct" ELSE "finish"
                /\ UNCHANGED <<users, inputs, registry, people_to_select, trial, search,
                               result, reply, first_result>>

\* The strategy of a trial: fill-first in the first third of the budget,
\* balanced in the second, random.choice of the two in the last.
GreedyStrategies(it, its) ==
    IF it < its \div 3 THEN {"fill_first"}
    ELSE IF it < (2 * its) \div 3 THEN {"balanced"}
    ELSE {"fill_first", "balanced"}

\* One trial's construction, over every shuffle and every draw.
GreedyOptimizeConstruct ==
    /\ pc = "construct" /\ impl = "optimizer"
    /\ \E a \in UNION {IF strategy = "fill_first"
                       THEN {_fill_first_assignment(people_copy)}
                       ELSE _random_assignment(people_copy) :
                           strategy \in GreedyStrategies(iteration, iterations),
                           people_copy \in Shuffles(selected_people)} :
          IF a = IndexError THEN RaiseAfter({})
          ELSE /\ EnterLocalSearch(a)
               /\ connection_graph' = Touch(ScoreReads(a))
               /\ UNCHANGED <<users, inputs, registry, people_to_select, selected_people,
                              iterations, iteration, best, result, reply, first_result>>

\* One pass of the while loop of house_assignment_solver.py's _local_search.
OptimizerLocalSearchPass ==
    /\ pc = "refine" /\ impl = "optimizer"
    /\ improved /\ ls_iterations < MaxPassesOptimizer
    /\ LET r == LocalSearchPassSwapOnly(current_assignment, current_score) IN
       IF r.err THEN RaiseAfter(r.keys)
       ELSE /\ current_assignment' = r.ca
            /\ current_score' = r.score
            /\ improved' = r.improved
            /\ ls_iterations' = ls_iterations + 1
            /\ connection_graph' = Touch(r.keys)
            /\ UNCHANGED <<users, inputs, registry, people_to_select, selected_people,
                           iterations, iteration, trial, best, result, reply,
                           first_result, pc>>

\* _local_search returns; the refined assignment replaces the best on a
\* strictly higher score.
GreedyOptimizeAccept ==
    /\ pc = "refine" /\ impl = "optimizer"
    /\ ~(improved /\ ls_iterations < MaxPassesOptimizer)
    /\ LET improved_assignment == current_assignment
           improved_score == current_score
       IN  /\ IF improved_score > best_score
              THEN /\ best_score' = improved_score
                   /\ best_assignment' = improved_assignment
              ELSE UNCHANGED <<best_score, best_assignment>>
           /\ iteration' = iteration + 1
           /\ pc' = IF iteration' >= iterations THEN "finish" ELSE "construct"
    /\ UNCHANGED <<users, inputs, object, people_to_select, selected_people, iterations,
                   trial, search, no_improvement_count, result, reply, first_result>>

\* return best_assignment, best_score
GreedyOptimizeReturn ==
    /\ pc = "finish" /\ impl = "optimizer"
    /\ result' = <<best_assignment, best_score>>
    /\ pc' = "done"
    /\ UNCHANGED <<users, inputs, object, people_to_select, selected_people, iterations,
                   iteration, trial, search, best, reply, first_result>>

-----------------------------------------------------------------------------
(* The /rela command (botdiscord.py) *)

\* Find matching character (case insensitive): the position in CHARACTERS of
\* the first name equal to char up to case, 0 when there is none.
MatchCharacter(char) ==
    LET hits == {k \in 1..Len(CHARACTERS) : Lower(char) = Lower(CHARACTERS[k])}
    IN  IF hits = {} THEN 0 ELSE CHOOSE k \in hits : \A m \in hits : k <= m

RECURSIVE ValidCharacters(_)
ValidCharacters(character_list) ==
    IF character_list = <<>> THEN <<>>
    ELSE LET k == MatchCharacter(Head(character_list)) IN
         (IF k = 0 THEN <<>> ELSE <<CHARACTERS[k]>>)
             \o ValidCharacters(Tail(character_list))

InvalidCharacters(character_list) ==
    LET Unmatched(char) == MatchCharacter(char) = 0
    IN  SelectSeq(character_list, Unmatched)

\* `x or default` for an argument that is None or empty
OrDefault(arg, default) == IF DOMAIN arg = {} THEN default ELSE arg

\* rela_command up to the call of solve_house_assignment, which builds a
\* HouseAssignmentSolver from the defaults and calls optimize_assignment.
RelaCommand ==
    /\ pc = "rela"
    /\ IF characters = <<>>
       THEN /\ reply' = "no characters"
            /\ pc' = "replied"
            /\ UNCHANGED <<object, relationships, people_to_select>>
       ELSE IF InvalidCharacters(characters) # <<>>
       THEN /\ reply' = "invalid characters"
            /\ pc' = "replied"
            /\ UNCHANGED <<object, relationships, people_to_select>>
       ELSE /\ people_to_select' = ValidCharacters(characters)
            /\ house_capacities' = OrDefault(None, HOUSE_CAPACITIES)
            /\ relationships' = OrDefault(None, RELATIONSHIPS)
            /\ people' = BuildPeople(relationships')
            /\ connection_graph' = BuildGraph(relationships')
            /\ pc' = "call"
            /\ UNCHANGED reply
    /\ UNCHANGED <<users, impl, characters, iterations_arg, capacities_arg,
                   selected_people, iterations,
                   iteration, trial, search, best, result, first_result>>

\* rela_command after the call: the formatted assignment, or the message of
\* the except branch when the call raised.
RelaRespond ==
    /\ pc \in {"done", "raised"}
    /\ reply = "pending"
    /\ reply' = IF pc = "done" THEN "assignment" ELSE "error"
    /\ pc' = "replied"
    /\ UNCHANGED <<users, inputs, object, people_to_select, selected_people, iterations,
                   iteration, trial, search, best, result, first_result>>

-----------------------------------------------------------------------------
(* Inputs *)

\* sample4 of create_sample_inputs: edges X-Y, X-Z, Y-W
Sample4Relationships ==
    [p \in {"X", "Y", "Z", "W"} |->
        CASE p = "X" -> <<"Y", "Z">>
          [] p = "Y" -> <<"X", "W">>
          [] p = "Z" -> <<"X">>
          [] p = "W" -> <<"Y">>]

\* A table in which X lists itself among its related entities
LoopRelationships ==
    [p \in {"X", "Y"} |->
        CASE p = "X" -> <<"X", "Y">>
          [] p = "Y" -> <<"X">>]

\* Longest candidate list of the calls on that table
LoopCandidates == 2

\* A table with the triangle X-Y, X-Z, Y-Z and six entities related to nobody
TriangleRelationships ==
    [p \in {"X", "Y", "Z", "P", "Q", "R", "S", "T", "U"} |->
        CASE p = "X" -> <<"Y", "Z">>
          [] p = "Y" -> <<"X", "Z">>
          [] p = "Z" -> <<"X", "Y">>
          [] OTHER -> <<>>]

\* Nine candidates for five places: 126 combinations of four to remove
TriangleList == <<"X", "Y", "Z", "P", "Q", "R", "S", "T", "U">>

\* A table with the triangle X-Y, X-Z, Y-Z, the path P-Q-R, the edge T-U and
\* an entity S related to nobody
ClusterRelationships ==
    [p \in {"X", "Y", "Z", "P", "Q", "R", "S", "T", "U"} |->
        CASE p = "X" -> <<"Y", "Z">>
          [] p = "Y" -> <<"Z">>
          [] p = "P" -> <<"Q">>
          [] p = "R" -> <<"Q">>
          [] p = "T" -> <<"U">>
          [] OTHER -> <<>>]

\* Candidate lists of distinct registered names that exceed three or four
\* places by more than 4
PriorityLists ==
    {<<"X", "Y", "Z", "P", "Q", "R", "S", "T", "U">>,
     <<"S", "U", "T", "R", "Q", "P", "Z", "Y", "X">>,
     <<"T", "P", "S", "X", "R", "U", "Y", "Q">>,
     <<"S", "R", "Y", "U", "P", "X", "T", "Q">>}

\* A candidate list that names X three times and W twice, five more than the
\* places of capacities 1, 1, 1
RepeatedNamesList == <<"Z", "Y", "X", "X", "X", "W", "W", "Z">>

\* A table with edges X-Y and X-Z and an entity W related to nobody
StarRelationships ==
    [p \in {"X", "Y", "Z", "W"} |->
        CASE p = "X" -> <<"Y", "Z">>
          [] p = "Y" -> <<"X">>
          [] p = "Z" -> <<"X">>
          [] p = "W" -> <<>>]

\* Longest candidate list of the enumerated calls
MaxCandidates == 4

\* Longest request of the enumerated /rela commands
MaxTokens == 2

\* The names candidate lists are made of: three of the registry of sample4,
\* and one that no relationship declares.
CandidateNames == {"X", "Y", "W", "Nobody"}

RequestSpellings == {"Han Wu", "han wu", "Weiqing", "Nobody"}

ListsOver(S, n) == UNION {[1..m -> S] : m \in 0..n}

CapacityChoices == {<<2, 2, 2>>, <<1, 1, 1>>, <<3, 1, 1>>, <<1, 1>>, <<1, 1, 1, 1>>}

\* Capacity lists the constructor is given that are empty or hold a value
\* that is not positive.
DegenerateCapacityChoices == {<<>>, <<0, 2, 2>>, <<2, -1, 2>>, <<1, -1, -1>>}

\* A table with the empty string as a name
EmptyNameRelationships ==
    [p \in {"X", ""} |-> IF p = "X" THEN <<"Y">> ELSE <<"X">>]

\* Calls with the empty name among the candidates: capacities and list
EmptyNameCalls ==
    {<<<<2, 2, 2>>, <<"X", "", "Y">>>>, <<<<2, 2, 2>>, <<"X", "Y", "">>>>,
     <<<<1, 1, 1>>, <<"X", "Y", "", "Z">>>>}

\* Longest candidate list of the calls on such capacities
DegenerateCandidates == 3

\* Lists longer than three houses of one place hold: four registered names,
\* two names no relationship declares, and lists five over the total.
OverflowLists ==
    {<<"X", "Y", "Z", "W">>,
     <<"Nobody", "Ghost", "Nobody", "Ghost">>,
     <<"X", "Y", "Z", "W", "Nobody", "Ghost", "X", "Y">>,
     <<"Nobody", "Ghost", "W", "Z", "Y", "X", "Nobody", "Ghost">>}

\* iterations of the enumerated calls: 8 trials stop early after 2 without a
\* gain; 3 trials run each strategy of greedy_optimize once.
SolverIterations == 8

OptimizerIterations == 3

OptimizerCapacityChoices == {<<2, 2, 2>>, <<1, 1, 1>>, <<1, 1>>}

OptimizerNames == {"X", "Y", "Nobody"}

\* Nothing has run yet.
Idle ==
    /\ selected_people = <<>>
    /\ iterations = 0
    /\ iteration = 0
    /\ assignment = None
    /\ score = 0
    /\ current_assignment = None
    /\ current_score = 0
    /\ ls_iterations = 0
    /\ improved = FALSE
    /\ best_assignment = None
    /\ best_score = 0
    /\ no_improvement_count = 0
    /\ result = None
    /\ first_result = None
    /\ user_files = <<>>
    /\ last_op = None
    /\ now = None
    /\ checks = 0
    /\ reset_log = <<>>
    /\ handlers = <<>>

\* HouseAssignmentSolver(caps, rel) or HouseAssignmentOptimizer(caps, rel),
\* then optimize_assignment(list, iterations) or greedy_optimize(list, iterations).
InitCall(which, caps, rel, list, iters) ==
    /\ impl = which
    /\ characters = <<>>
    /\ people_to_select = list
    /\ iterations_arg = iters
    /\ capacities_arg = <<caps>>
    /\ house_capacities = IF which = "solver" THEN OrDefault(caps, HOUSE_CAPACITIES)
                          ELSE caps
    /\ relationships = IF which = "solver" THEN OrDefault(rel, RELATIONSHIPS) ELSE rel
    /\ people = BuildPeople(relationships)
    /\ connection_graph = BuildGraph(relationships)
    /\ pc = "call"
    /\ reply = "no request"
    /\ Idle

\* A /rela request carrying the tokens of character_list.
InitRela(character_list) ==
    /\ impl = "solver"
    /\ characters = character_list
    /\ people_to_select = <<>>
    /\ iterations_arg = None
    /\ capacities_arg = None
    /\ house_capacities = <<>>
    /\ relationships = <<>>
    /\ people = {}
    /\ connection_graph = <<>>
    /\ pc = "rela"
    /\ reply = "pending"
    /\ Idle

Init ==
    \/ \E caps \in CapacityChoices, list \in ListsOver(CandidateNames, MaxCandidates) :
          InitCall("solver", caps, Sample4Relationships, list, <<SolverIterations>>)
    \/ \E caps \in DegenerateCapacityChoices,
          list \in ListsOver(CandidateNames, DegenerateCandidates) :
          InitCall("solver", caps, Sample4Relationships, list, <<SolverIterations>>)
    \/ \E which \in {"solver", "optimizer"},
          list \in ListsOver({"X", "Y"}, LoopCandidates) :
          InitCall(which, <<2, 2, 2>>, LoopRelationships, list,
                   IF which = "solver" THEN <<SolverIterations>>
                   ELSE <<OptimizerIterations>>)
    \/ \E list \in OverflowLists :
          InitCall("solver", <<1, 1, 1>>, Sample4Relationships, list, <<SolverIterations>>)
    \/ \E caps \in {<<1, 1, 1, 1>>, <<2, 1, 1>>} :
          InitCall("solver", caps, Sample4Relationships,
                   <<"X", "Y", "Z", "W">>, <<SolverIterations>>)
    \/ InitCall("solver", <<3, 1, 1>>, StarRelationships,
                <<"X", "Y", "Z", "W">>, <<SolverIterations>>)
    \/ InitCall("solver", <<3, 1, 1>>, TriangleRelationships, TriangleList, <<1>>)
    \/ \E caps \in {<<1, 1, 1>>, <<2, 1, 1>>}, list \in PriorityLists :
          /\ Len(list) - SumSeq(caps) > 4
          /\ InitCall("solver", caps, ClusterRelationships, list, <<1>>)
    \/ InitCall("solver", <<1, 1, 1>>, Sample4Relationships, RepeatedNamesList, <<1>>)
    \/ InitCall("solver", <<2, 2, 2>>, ClusterRelationships,
                <<"P", "R", "S">>, <<SolverIterations>>)
    \/ \E call \in EmptyNameCalls :
          InitCall("solver", call[1], EmptyNameRelationships, call[2],
                   <<SolverIterations>>)
    \/ \E caps \in OptimizerCapacityChoices,
          list \in ListsOver(OptimizerNames, MaxCandidates) :
          InitCall("optimizer", caps, Sample4Relationships, list, <<OptimizerIterations>>)
    \/ \E list \in ListsOver(OptimizerNames, DegenerateCandidates) :
          InitCall("optimizer", <<1, -1, -1>>, Sample4Relationships, list,
                   <<OptimizerIterations>>)
    \/ \E character_list \in ListsOver(RequestSpellings, MaxTokens) :
          InitRela(character_list)

Next ==
    \/ OptimizeAssignmentStart
    \/ OptimizeAssignmentConstruct
    \/ SolverLocalSearchPass
    \/ OptimizeAssignmentAccept
    \/ OptimizeAssignmentReturn
    \/ GreedyOptimizeStart
    \/ GreedyOptimizeConstruct
    \/ OptimizerLocalSearchPass
    \/ GreedyOptimizeAccept
    \/ GreedyOptimizeReturn
    \/ RelaCommand
    \/ RelaRespond

Spec == Init /\ [][Next]_vars

-----------------------------------------------------------------------------
(* The same call made twice *)

\* Longest candidate list of the repeated calls
RepeatCandidates == 2

\* The caller keeps what the call returned and makes the same call again
\* with the same arguments: solve_house_assignment builds a new solver in
\* every call; a /rela request is sent again.
Rerun ==
    /\ first_result = None
    /\ result # None
    /\ pc = IF characters = <<>> THEN "done" ELSE "replied"
    /\ first_result' = <<result>>
    /\ pc' = IF characters = <<>> THEN "call" ELSE "rela"
    /\ reply' = IF characters = <<>> THEN reply ELSE "pending"
    /\ selected_people' = <<>>
    /\ iterations' = 0
    /\ iteration' = 0
    /\ assignment' = None
    /\ score' = 0
    /\ current_assignment' = None
    /\ current_score' = 0
    /\ ls_iterations' = 0
    /\ improved' = FALSE
    /\ best_assignment' = None
    /\ best_score' = 0
    /\ no_improvement_count' = 0
    /\ result' = None
    /\ people' = BuildPeople(relationships)
    /\ connection_graph' = BuildGraph(relationships)
    /\ UNCHANGED <<users, inputs, house_capacities, people_to_select>>

InitRepeat ==
    \/ \E list \in ListsOver(CandidateNames, RepeatCandidates) :
          InitCall("solver", <<2, 2, 2>>, Sample4Relationships, list, <<SolverIterations>>)
    \/ \E list \in ListsOver(OptimizerNames, RepeatCandidates) :
          InitCall("optimizer", <<2, 2, 2>>, Sample4Relationships, list,
                   <<OptimizerIterations>>)
    \/ \E character_list \in ListsOver(RequestSpellings, MaxTokens) :
          InitRela(character_list)

NextRepeat == Next \/ Rerun

SpecRepeat == InitRepeat /\ [][NextRepeat]_vars

-----------------------------------------------------------------------------
(* sample4 of create_sample_inputs, given to optimize_assignment *)

\* The iterations argument of these calls: None (150 trials, stopping after
\* 37 without a gain) and the smallest budgets that run a trial.
Sample4Iterations == {None, <<1>>, <<2>>, <<3>>}

InitSample4 ==
    \E iters \in Sample4Iterations :
        InitCall("solver", <<2, 2, 2>>, Sample4Relationships,
                 <<"X", "Y", "Z", "W">>, iters)

NextSolver ==
    \/ OptimizeAssignmentStart
    \/ OptimizeAssignmentConstruct
    \/ SolverLocalSearchPass
    \/ OptimizeAssignmentAccept
    \/ OptimizeAssignmentReturn

SpecSample4 == InitSample4 /\ [][NextSolver]_vars

-----------------------------------------------------------------------------
(* The users' character lists (user_manager.py).  user_files maps each user *)
(* id that has a file to the "characters" list in it.  last_op is           *)
(* <<operation, user_id, character, list before, success>>.                 *)

\* The users that send commands
UserIds == {1, 2}

\* What they type: spellings of two registry names, and a name not in it
AddSpellings == {"Han Wu", "han wu", "HAN WU", "Weiqing", "weiqing", "Nobody"}

\* _load_user_data(user_id).get("characters", []): a user without a file, or
\* with a file json cannot read, has the empty list.
get_user_characters(user_id) ==
    IF user_id \in DOMAIN user_files THEN user_files[user_id] ELSE <<>>

\* The first name of valid_characters equal to character up to case: its
\* position, 0 when there is none.
FirstMatch(character, valid_characters) ==
    LET hits == {k \in 1..Len(valid_characters) :
                    Lower(character) = Lower(valid_characters[k])}
    IN  IF hits = {} THEN 0 ELSE CHOOSE k \in hits : \A m \in hits : k <= m

\* A write that puts the list into every user's file: with it one user's
\* command changes the lists of the others.
WriteFileShared(user_id, user_chars) ==
    [u \in DOMAIN user_files \cup {user_id} |-> user_chars]

\* The store with user_id's file holding the list user_chars
WriteFile(user_id, user_chars) ==
    [u \in DOMAIN user_files \cup {user_id} |->
        IF u = user_id THEN user_chars ELSE user_files[u]]

\* _save_user_data: the file written, or an exception caught and False
\* returned, the file then as it was (open failed) or, opened for writing and
\* cut short, unreadable: open(user_file, 'w') creates the file also for a
\* user who had none, and get_user_characters reads it as [].  Each outcome
\* is <<store afterwards, returned value>>.
SaveOutcomes(user_id, user_chars) ==
    {<<WriteFile(user_id, user_chars), TRUE>>,
     <<user_files, FALSE>>,
     <<WriteFile(user_id, <<>>), FALSE>>}

\* A check against the spelling the user typed rather than the registry's:
\* with it a name differing in case is stored a second time.
AlreadyListedAsTyped(valid_char, character, user_chars) ==
    character \in Range(user_chars)

\* if valid_char in user_chars
AlreadyListed(valid_char, character, user_chars) ==
    valid_char \in Range(user_chars)

\* The bot's /add: user_manager.add_character(user_id, character, CHARACTERS).
AddCharacter ==
    /\ pc = "idle"
    /\ \E user_id \in DOMAIN user_files \cup UserIds, character \in AddSpellings :
          LET k == FirstMatch(character, CHARACTERS)
              user_chars == get_user_characters(user_id)
          IN  IF k = 0 \/ AlreadyListed(CHARACTERS[k], character, user_chars)
              THEN /\ last_op' = <<"add", user_id, character, user_chars, FALSE>>
                   /\ UNCHANGED user_files
              ELSE \E saved \in SaveOutcomes(user_id, Append(user_chars, CHARACTERS[k])) :
                      /\ user_files' = saved[1]
                      /\ last_op' = <<"add", user_id, character, user_chars, saved[2]>>
    /\ UNCHANGED <<inputs, object, people_to_select, selected_people, iterations,
                   iteration, trial, search, best, result, reply, first_result, pc,
                   task, handlers>>

\* The bot's /remove: user_manager.remove_character(user_id, character).
RemoveCharacter ==
    /\ pc = "idle"
    /\ \E user_id \in DOMAIN user_files \cup UserIds, character \in AddSpellings :
          LET user_chars == get_user_characters(user_id)
              k == FirstMatch(character, user_chars)
          IN  IF user_chars = <<>> \/ k = 0
              THEN /\ last_op' = <<"remove", user_id, character, user_chars, FALSE>>
                   /\ UNCHANGED user_files
              ELSE \E saved \in SaveOutcomes(user_id, RemoveFirst(user_chars, user_chars[k])) :
                      /\ user_files' = saved[1]
                      /\ last_op' = <<"remove", user_id, character, user_chars, saved[2]>>
    /\ UNCHANGED <<inputs, object, people_to_select, selected_people, iterations,
                   iteration, trial, search, best, result, reply, first_result, pc,
                   task, handlers>>

\* The bot's /clear: user_manager.clear_user_data(user_id).  Without a file
\* there is nothing to clear; the unlink succeeds, or raises and the file
\* stays.
ClearUserData ==
    /\ pc = "idle"
    /\ \E user_id \in DOMAIN user_files \cup UserIds :
          LET user_chars == get_user_characters(user_id) IN
          IF user_id \notin DOMAIN user_files
          THEN /\ last_op' = <<"clear", user_id, "", user_chars, FALSE>>
               /\ UNCHANGED user_files
          ELSE \/ /\ user_files' = [u \in DOMAIN user_files \ {user_id} |-> user_files[u]]
                  /\ last_op' = <<"clear", user_id, "", user_chars, TRUE>>
               \/ /\ last_op' = <<"clear", user_id, "", user_chars, FALSE>>
                  /\ UNCHANGED user_files
    /\ UNCHANGED <<inputs, object, people_to_select, selected_people, iterations,
                   iteration, trial, search, best, result, reply, first_result, pc,
                   task, handlers>>

\* reset_all_users: every user_*.json is unlinked; a file whose unlink raises
\* stays.  Each outcome is <<store afterwards, reset_count>>.
reset_all_users ==
    {<<[u \in kept |-> user_files[u]], Cardinality(DOMAIN user_files \ kept)>> :
        kept \in SUBSET DOMAIN user_files}

\* A call of user_manager.reset_all_users(); last_op holds reset_count.
ResetAllUsers ==
    /\ pc = "idle"
    /\ \E out \in reset_all_users :
          /\ user_files' = out[1]
          /\ last_op' = <<"reset", 0, "", <<>>, out[2]>>
    /\ UNCHANGED <<inputs, object, people_to_select, selected_people, iterations,
                   iteration, trial, search, best, result, reply, first_result, pc,
                   task, handlers>>

\* The bot is up, no user has a file and no request is being served.
InitUsers ==
    /\ impl = "solver"
    /\ characters = <<>>
    /\ people_to_select = <<>>
    /\ iterations_arg = None
    /\ capacities_arg = None
    /\ house_capacities = HOUSE_CAPACITIES
    /\ relationships = RELATIONSHIPS
    /\ people = BuildPeople(relationships)
    /\ connection_graph = BuildGraph(relationships)
    /\ pc = "idle"
    /\ reply = "no request"
    /\ Idle

NextUsers ==
    \/ AddCharacter
    \/ RemoveCharacter
    \/ ClearUserData
    \/ ResetAllUsers

SpecUsers == InitUsers /\ [][NextUsers]_vars

-----------------------------------------------------------------------------
(* The weekly reset (botdiscord.py).  weekly_reset_task is a tasks.loop of  *)
(* one hour: a check, then the next one an hour later.  now is <<weekday,   *)
(* hour, minute>> of datetime.now(GMT_PLUS_7), weekday 0 being Monday; the  *)
(* zone is a fixed offset, so an hour later is the next hour of the week.   *)

\* The checks observed: two weeks of hourly checks
MaxChecks == 336

\* The minute of the hour at which the loop happened to start
StartMinutes == {0, 59}

\* The stores the first check can find
WeeklyStores ==
    {<<>>, [u \in {1} |-> <<"Han Wu">>],
     [u \in {1, 2} |-> IF u = 1 THEN <<"Han Wu", "Weiqing">> ELSE <<"Weiqing">>]}

\* A test that takes every Monday hour from 6 on: with it the data is reset
\* on every check of the rest of the day.
ResetDueFromSix(t) == t[1] = 0 /\ t[2] >= 6 /\ t[3] < 60

\* if now.weekday() == 0 and now.hour == 6 and now.minute < 60
ResetDue(t) == t[1] = 0 /\ t[2] = 6 /\ t[3] < 60

\* The reading of the clock one loop interval (hours=1) after t
NextCheck(t) ==
    IF t[2] + 1 < 24 THEN <<t[1], t[2] + 1, t[3]>>
    ELSE <<(t[1] + 1) % 7, 0, t[3]>>

\* One iteration of weekly_reset_task.
WeeklyResetTask ==
    /\ pc = "idle" /\ now # None /\ checks < MaxChecks
    /\ checks' = checks + 1
    /\ now' = NextCheck(now)
    /\ IF ResetDue(now)
       THEN \E out \in reset_all_users :
               /\ user_files' = out[1]
               /\ last_op' = <<"reset", 0, "", <<>>, out[2]>>
               /\ reset_log' = Append(reset_log, checks')
       ELSE UNCHANGED <<user_files, last_op, reset_log>>
    /\ UNCHANGED <<inputs, object, people_to_select, selected_people, iterations,
                   iteration, trial, search, best, result, reply, first_result, pc,
                   handlers>>

\* on_ready has started the task: the first check comes at once, at any hour
\* of the week.
InitWeekly ==
    /\ impl = "solver"
    /\ characters = <<>>
    /\ people_to_select = <<>>
    /\ iterations_arg = None
    /\ capacities_arg = None
    /\ house_capacities = HOUSE_CAPACITIES
    /\ relationships = RELATIONSHIPS
    /\ people = BuildPeople(relationships)
    /\ connection_graph = BuildGraph(relationships)
    /\ pc = "idle"
    /\ reply = "no request"
    /\ selected_people = <<>> /\ iterations = 0 /\ iteration = 0
    /\ assignment = None /\ score = 0
    /\ current_assignment = None /\ current_score = 0
    /\ ls_iterations = 0 /\ improved = FALSE
    /\ best_assignment = None /\ best_score = 0 /\ no_improvement_count = 0
    /\ result = None /\ first_result = None
    /\ user_files \in WeeklyStores
    /\ last_op = None
    /\ now \in (0..6) \X (0..23) \X StartMinutes
    /\ checks = 0
    /\ reset_log = <<>>
    /\ handlers = <<>>

NextWeekly == WeeklyResetTask

SpecWeekly == InitWeekly /\ [][NextWeekly]_vars

-----------------------------------------------------------------------------
(* Two /add commands served at once (botdiscord.py).  A handler is a        *)
(* coroutine: it runs until an await, where the event loop can run the      *)
(* other handler.  handlers[h] is [pc, user_id, character, success]: pc is  *)
(* "received" before the handler has run, "deferred" at await               *)
(* interaction.response.defer(), "sending" at await                         *)
(* interaction.followup.send(message), "replied" after it.                  *)

\* The commands being served
HandlerIds == {1, 2}

\* What the two commands ask for: spellings of two different registry names
FirstSpellings == {"Han Wu", "han wu", "HAN WU"}

SecondSpellings == {"Weiqing", "weiqing"}

\* The stores the commands can find
AddStores ==
    {<<>>, [u \in {1} |-> <<"Han Wu">>], [u \in {1} |-> <<"Zifu">>],
     [u \in {2} |-> <<"Weiqing">>]}

\* A list that holds the new name alone: with it the second command's save
\* drops what the first one stored.
AddedAlone(user_chars, valid_char) == <<valid_char>>

\* user_chars.append(valid_char)
Added(user_chars, valid_char) == Append(user_chars, valid_char)

\* The handler starts and reaches await interaction.response.defer().
AddDefer ==
    /\ pc = "idle"
    /\ \E h \in DOMAIN handlers :
          /\ handlers[h].pc = "received"
          /\ handlers' = [handlers EXCEPT ![h].pc = "deferred"]
    /\ UNCHANGED <<inputs, object, people_to_select, selected_people, iterations,
                   iteration, trial, search, best, result, reply, first_result, pc,
                   task, user_files, last_op>>

\* The handler resumes: user_manager.add_character(interaction.user.id,
\* character, CHARACTERS) runs from its first line to its return, then the
\* handler reaches await interaction.followup.send(message).
AddCall ==
    /\ pc = "idle"
    /\ \E h \in DOMAIN handlers :
          /\ handlers[h].pc = "deferred"
          /\ LET user_id == handlers[h].user_id
                 character == handlers[h].character
                 k == FirstMatch(character, CHARACTERS)
                 user_chars == get_user_characters(user_id)
             IN  IF k = 0 \/ AlreadyListed(CHARACTERS[k], character, user_chars)
                 THEN /\ last_op' = <<"add", user_id, character, user_chars, FALSE>>
                      /\ handlers' = [handlers EXCEPT ![h].pc = "sending",
                                                      ![h].success = <<FALSE>>]
                      /\ UNCHANGED user_files
                 ELSE \E saved \in SaveOutcomes(user_id, Added(user_chars, CHARACTERS[k])) :
                         /\ user_files' = saved[1]
                         /\ last_op' = <<"add", user_id, character, user_chars, saved[2]>>
                         /\ handlers' = [handlers EXCEPT ![h].pc = "sending",
                                                         ![h].success = <<saved[2]>>]
    /\ UNCHANGED <<inputs, object, people_to_select, selected_people, iterations,
                   iteration, trial, search, best, result, reply, first_result, pc,
                   task>>

\* The message has been sent: the handler ends.
AddReply ==
    /\ pc = "idle"
    /\ \E h \in DOMAIN handlers :
          /\ handlers[h].pc = "sending"
          /\ handlers' = [handlers EXCEPT ![h].pc = "replied"]
    /\ UNCHANGED <<inputs, object, people_to_select, selected_people, iterations,
                   iteration, trial, search, best, result, reply, first_result, pc,
                   task, user_files, last_op>>

\* Two /add commands of user 1 have arrived, for two different names.
InitAdds ==
    /\ impl = "solver"
    /\ characters = <<>>
    /\ people_to_select = <<>>
    /\ iterations_arg = None
    /\ capacities_arg = None
    /\ house_capacities = HOUSE_CAPACITIES
    /\ relationships = RELATIONSHIPS
    /\ people = BuildPeople(relationships)
    /\ connection_graph = BuildGraph(relationships)
    /\ pc = "idle"
    /\ reply = "no request"
    /\ selected_people = <<>> /\ iterations = 0 /\ iteration = 0
    /\ assignment = None /\ score = 0
    /\ current_assignment = None /\ current_score = 0
    /\ ls_iterations = 0 /\ improved = FALSE
    /\ best_assignment = None /\ best_score = 0 /\ no_improvement_count = 0
    /\ result = None /\ first_result = None
    /\ user_files \in AddStores
    /\ last_op = None
    /\ now = None /\ checks = 0 /\ reset_log = <<>>
    /\ \E c1 \in FirstSpellings, c2 \in SecondSpellings :
          handlers = [h \in HandlerIds |->
                        [pc |-> "received", user_id |-> 1,
                         character |-> IF h = 1 THEN c1 ELSE c2, success |-> None]]

NextAdds ==
    \/ AddDefer
    \/ AddCall
    \/ AddReply

SpecAdds == InitAdds /\ [][NextAdds]_vars

-----------------------------------------------------------------------------
(* What the calls are checked against *)

\* The people of an assignment, group after group
RECURSIVE Flatten(_)
Flatten(a) == IF a = <<>> THEN <<>> ELSE Head(a) \o Flatten(Tail(a))

Occurrences(list, x) == Cardinality({k \in 1..Len(list) : list[k] = x})

\* optimize_assignment has returned result = <<assignment, score>>
SolverReturned == impl = "solver" /\ result # None

\* x declared y, read off the relationship table itself
Declares(x, y) == x \in DOMAIN relationships /\ y \in Range(relationships[x])

\* The unordered pairs of two entities of a group that are connected
ConnectedPairs(group) ==
    {pair \in SUBSET Range(group) :
        /\ Cardinality(pair) = 2
        /\ \E x, y \in pair : x # y /\ (Declares(x, y) \/ Declares(y, x))}

PairCount(a) == SumSeq([h \in 1..Len(a) |-> Cardinality(ConnectedPairs(a[h]))])

\* C1: the score optimize_assignment returns is the number of unordered pairs
\* {x, y} of connected entities that share a group of the returned assignment,
\* each pair counted once, summed over the groups.
C1_ScoreCountsEachPairOnce ==
    SolverReturned => result[2] = PairCount(result[1])

\* Group h of a holds no more than capacity h allows (a group with no
\* capacity holds nobody).
WithinCapacity(a) ==
    \A h \in 1..Len(a) :
        Len(a[h]) <= (IF h <= Len(house_capacities) THEN house_capacities[h] ELSE 0)

\* C2: the assignment a construction strategy produced, the assignment
\* _local_search is working on after each of its passes, the best assignment
\* kept and the assignment returned never hold more people in group i than
\* capacities[i], whenever every capacity is positive.
C2_GroupsWithinCapacity ==
    (\A h \in DOMAIN house_capacities : house_capacities[h] > 0) =>
        /\ WithinCapacity(assignment)
        /\ WithinCapacity(current_assignment)
        /\ WithinCapacity(best_assignment)
        /\ result # None => WithinCapacity(result[1])

\* C2 at work: a returned assignment with a full group and, in another group,
\* somebody connected to a member of the full one.
C2_FullGroupReturned ==
    /\ result # None /\ result[1] # None
    /\ \E h, g \in DOMAIN result[1] \cap DOMAIN house_capacities :
          /\ h # g
          /\ Len(result[1][h]) = house_capacities[h]
          /\ \E x \in Range(result[1][h]), y \in Range(result[1][g]) :
                Declares(x, y) \/ Declares(y, x)

\* C3: nobody appears twice in the assignment optimize_assignment returns,
\* neither in two groups nor twice in one, whatever the candidate list.
C3_EachEntityAtMostOnce ==
    SolverReturned =>
        \A x \in Range(Flatten(result[1])) : Occurrences(Flatten(result[1]), x) = 1

\* C4: everybody in the assignment optimize_assignment returns was named in
\* the candidate list and is in the registry.
C4_OnlyRegisteredCandidates ==
    SolverReturned =>
        \A x \in Range(Flatten(result[1])) :
            x \in Range(people_to_select) /\ x \in people

\* C5: when more candidates are supplied than the groups hold, the returned
\* assignment holds exactly sum(capacities) people.
C5_OverflowFillsEveryPlace ==
    (SolverReturned /\ Len(people_to_select) > SumSeq(house_capacities)) =>
        Len(Flatten(result[1])) = SumSeq(house_capacities)

\* C6: whenever the registered candidates are no more than the groups hold,
\* each of them is in the returned assignment and no unknown name is.
C6_NoTrimmingOfFittingCandidates ==
    (SolverReturned
        /\ Len(FilterRegistered(people_to_select)) <= SumSeq(house_capacities)) =>
        /\ \A x \in Range(FilterRegistered(people_to_select)) :
              x \in Range(Flatten(result[1]))
        /\ \A x \in Range(Flatten(result[1])) : x \in people

\* Groups a and b hold the same people, in whatever order.
SameGroups(a, b) ==
    /\ Len(a) = Len(b)
    /\ \A h \in 1..Len(a) :
          \A x \in Range(a[h]) \cup Range(b[h]) :
              Occurrences(a[h], x) = Occurrences(b[h], x)

\* C7: throughout _local_search the current score is at least the score of
\* the assignment it was given and is the score of the current assignment; a
\* pass that applies a move or swap strictly raises the score, and a pass that
\* applies none leaves the groups and the score as they were.
C7_LocalSearchNeverDecreases ==
    [][pc' = "refine" =>
          /\ current_score' >= score'
          /\ score' = _calculate_total_score(assignment')
          /\ current_score' = _calculate_total_score(current_assignment')
          /\ pc = "refine" =>
                IF improved'
                THEN current_score' > current_score
                ELSE /\ current_score' = current_score
                     /\ SameGroups(current_assignment', current_assignment)]_vars

\* C7 at work: _local_search has applied a move and the score is above the
\* score of the assignment it was given.
C7_MoveApplied ==
    /\ pc = "refine"
    /\ ls_iterations >= 1
    /\ current_score > score
    /\ ~SameGroups(current_assignment, assignment)

\* C8: the same call made again returns the same (assignment, score).
C8_SameCallSameResult ==
    (SolverReturned /\ first_result # None) => result = first_result[1]

\* C9: when no candidate is in the registry, optimize_assignment returns
\* empty groups and score 0 and has run no trial.
C9_NobodyRegisteredNoTrial ==
    (SolverReturned /\ FilterRegistered(people_to_select) = <<>>) =>
        /\ result = <<EmptyAssignment, 0>>
        /\ iteration = 0
        /\ assignment = None

\* C10: what optimize_assignment and greedy_optimize return is always an
\* assignment, a list of groups, never None.
C10_AssignmentNeverNone ==
    result # None => result[1] # None

\* The capacities the caller supplied are empty or hold a value <= 0.
DegenerateCapacities ==
    /\ capacities_arg # None
    /\ \/ capacities_arg[1] = <<>>
       \/ \E h \in DOMAIN capacities_arg[1] : capacities_arg[1][h] <= 0

\* C11: with capacities that are empty or hold a value <= 0 the call ends in
\* an error before anybody is filtered or selected and before any trial; no
\* assignment is computed or returned.
C11_DegenerateCapacitiesRejected ==
    (impl = "solver" /\ DegenerateCapacities) =>
        /\ pc \in {"call", "raised"}
        /\ selected_people = <<>>
        /\ assignment = None
        /\ result = None

\* C12: for n >= 1 capacities the call ends without an indexing failure and
\* the assignment optimize_assignment returns has n groups.
C12_OneGroupPerCapacity ==
    (impl = "solver" /\ Len(house_capacities) >= 1) =>
        /\ pc # "raised"
        /\ result # None => Len(result[1]) = Len(house_capacities)

\* C13: nobody is in their own neighbor set in the graph the constructor built.
C13_GraphLoopFree ==
    \A x \in DOMAIN connection_graph : x \notin connection_graph[x]

\* Every way to put the people of list into groups of the given capacities,
\* or nowhere (0): position k of list goes to group f[k].
Placements(list, caps) ==
    {f \in [1..Len(list) -> 0..Len(caps)] :
        \A h \in 1..Len(caps) : Cardinality({k \in 1..Len(list) : f[k] = h}) <= caps[h]}

\* The connected pairs a placement puts into one group
PlacementScore(list, f) ==
    Cardinality({pair \in SUBSET (1..Len(list)) :
        /\ Cardinality(pair) = 2
        /\ \E i, j \in pair :
              /\ i # j /\ f[i] = f[j] /\ f[i] # 0
              /\ (Declares(list[i], list[j]) \/ Declares(list[j], list[i]))})

BruteForceMaximum(list, caps) ==
    LET scores == {PlacementScore(list, f) : f \in Placements(list, caps)}
    IN  CHOOSE m \in scores : \A n \in scores : n <= m

\* C14: on capacities [2,2,2], edges X-Y, X-Z, Y-W and candidates
\* [X,Y,Z,W], whatever the shuffles, optimize_assignment returns score 2, the
\* largest score of any assignment within the capacities.
C14_Sample4ScoresTwo ==
    (/\ SolverReturned
     /\ house_capacities = <<2, 2, 2>>
     /\ relationships = Sample4Relationships
     /\ people_to_select = <<"X", "Y", "Z", "W">>
     /\ iterations > 0) =>
        /\ result[2] = 2
        /\ PairCount(result[1]) = 2
        /\ BruteForceMaximum(people_to_select, house_capacities) = 2

\* C14 at work: the call has returned 2 after several trials, the last of
\* which constructed an assignment scoring less than 2.
C14_TwoAfterWeakTrial ==
    /\ SolverReturned
    /\ people_to_select = <<"X", "Y", "Z", "W">>
    /\ house_capacities = <<2, 2, 2>>
    /\ iteration > 1
    /\ score < 2
    /\ result[2] = 2

\* C15: a /rela request with names that match the registry and names that do
\* not is answered with an assignment for the matched names.
C15_MixedRequestStillAssigned ==
    (/\ pc = "replied"
     /\ ValidCharacters(characters) # <<>>
     /\ InvalidCharacters(characters) # <<>>) =>
        /\ reply = "assignment"
        /\ result # None
        /\ people_to_select = ValidCharacters(characters)

\* list holds an entry equal to character up to case.
ListedUpToCase(character, list) ==
    \E k \in 1..Len(list) : Lower(list[k]) = Lower(character)

\* C16: add_character stores the registry's spelling of the name it was
\* given, whatever the case typed; when the user's list already holds the name
\* up to case the call fails and the list stays as it was; no name is in a
\* list twice, up to case.
C16_AddStoresCanonicalOnce ==
    (last_op # None /\ last_op[1] = "add") =>
        LET character == last_op[3]
            before == last_op[4]
            after == get_user_characters(last_op[2])
        IN  /\ last_op[5] =>
                  /\ Len(after) = Len(before) + 1
                  /\ SubSeq(after, 1, Len(before)) = before
                  /\ after[Len(after)] \in Range(CHARACTERS)
                  /\ Lower(after[Len(after)]) = Lower(character)
            /\ ListedUpToCase(character, before) => (~last_op[5] /\ after = before)
            /\ \A i, j \in 1..Len(after) : Lower(after[i]) = Lower(after[j]) => i = j

\* C16 at work: a name typed in another case than the entry already in the
\* user's list was refused.
C16_OtherCaseRefused ==
    /\ last_op # None /\ last_op[1] = "add"
    /\ last_op[3] \notin Range(last_op[4])
    /\ ListedUpToCase(last_op[3], last_op[4])
    /\ ~last_op[5]
    /\ get_user_characters(last_op[2]) = last_op[4]

\* The people of list are distinct and in the registry.
DistinctRegistered(list) ==
    /\ \A x \in Range(list) : x \in people
    /\ \A i, j \in 1..Len(list) : list[i] = list[j] => i = j

\* Every capacity is used up by the groups of a.
CapacityUsedUp(a) ==
    \A h \in DOMAIN house_capacities :
        h \in DOMAIN a /\ Len(a[h]) >= house_capacities[h]

\* Everybody of list is in exactly one group of a, or in none when no
\* capacity is left.
EverybodyPlaced(list, a) ==
    \A x \in Range(list) :
        \/ Occurrences(Flatten(a), x) = 1
        \/ Occurrences(Flatten(a), x) = 0 /\ CapacityUsedUp(a)

\* C17: the assignment a construction strategy has just built from distinct
\* registered people (fill-first, greedy gain, cluster seed, balanced, and
\* the fill-first fallback) holds each of them exactly once, or leaves
\* somebody out only when all capacity is used up.
C17_StrategiesPlaceEverybody ==
    DistinctRegistered(selected_people) =>
        /\ (pc = "refine" /\ ls_iterations = 0) =>
              EverybodyPlaced(selected_people, assignment)
        /\ (pc = "done" /\ result # None /\ result[1] # None /\ best_score = 0) =>
              EverybodyPlaced(selected_people, result[1])

\* The scores of ca after one swap of two people between different houses.
SwapScores(ca) ==
    { _calculate_total_score(SwapIn(ca, i, j, ca[i + 1][m], ca[j + 1][n])) :
        <<i, j, m, n>> \in
          { q \in (0..(NumHouses - 1)) \X (0..(NumHouses - 1))
                    \X (1..MaxCandidates + 1) \X (1..MaxCandidates + 1) :
              /\ q[1] < q[2]
              /\ q[3] \in DOMAIN ca[q[1] + 1]
              /\ q[4] \in DOMAIN ca[q[2] + 1] } }

\* The scores of ca after one move of a person into a house with room left.
MoveScores(ca) ==
    { _calculate_total_score(MoveIn(ca, i, j, ca[i + 1][m])) :
        <<i, j, m>> \in
          { q \in (0..(NumHouses - 1)) \X (0..(NumHouses - 1))
                    \X (1..MaxCandidates + 1) :
              /\ q[1] # q[2]
              /\ q[3] \in DOMAIN ca[q[1] + 1]
              /\ q[2] + 1 \in DOMAIN house_capacities
              /\ Len(ca[q[2] + 1]) < house_capacities[q[2] + 1] } }

\* No swap and no move scores above cur_score.
LocalOptimum(ca, cur_score) ==
    \A sc \in SwapScores(ca) \cup MoveScores(ca) : sc <= cur_score

\* C18: when solver.py's _local_search leaves its loop before the cap of 50
\* passes, no swap of two people between different houses and no move of a
\* person into a house with room left scores above the assignment it
\* returns.
C18_ReturnsLocalOptimum ==
    (/\ impl = "solver" /\ pc = "refine"
     /\ Len(house_capacities) = NumHouses
     /\ \A h \in DOMAIN house_capacities : house_capacities[h] > 0
     /\ DistinctRegistered(selected_people)
     /\ ~improved /\ ls_iterations < MaxPassesSolver)
        => LocalOptimum(current_assignment, current_score)

\* C19: a pass of solver.py's _local_search that applies a move or a swap
\* reaches the highest score among all swaps of two people between
\* different houses and all moves of a person into a house with room left,
\* because the pass tries every one of them.
C19_PassAppliesBestMove ==
    [][(/\ impl = "solver" /\ pc = "refine"
        /\ Len(house_capacities) = NumHouses
        /\ \A h \in DOMAIN house_capacities : house_capacities[h] > 0
        /\ DistinctRegistered(selected_people)
        /\ ls_iterations' = ls_iterations + 1
        /\ improved')
          => \A sc \in SwapScores(current_assignment) \cup MoveScores(current_assignment) :
                sc <= current_score']_vars

\* The ways to pick r of the positions 1..n, in increasing order.
Combinations(n, r) ==
    {c \in [1..r -> 1..n] : \A k \in 1..(r - 1) : c[k] < c[k + 1]}

\* The highest and the lowest quick score the evaluation of list can give.
QuickBest(list) ==
    CHOOSE x \in QuickScores(list) : \A y \in QuickScores(list) : x >= y

QuickWorst(list) ==
    CHOOSE x \in QuickScores(list) : \A y \in QuickScores(list) : x <= y

\* C20: with at most 4 candidates more than places (and not the 19-for-15
\* case), the list select_best_people returns has a quick score no lower
\* than the list left by any combination of excess candidates to remove.
C20_SelectorKeepsBestSubset ==
    LET n == Len(people_to_select)
        max_people == SumSeq(house_capacities)
    IN  (/\ impl = "solver" /\ pc = "construct" /\ iteration = 0
         /\ Len(house_capacities) = NumHouses
         /\ \A h \in DOMAIN house_capacities : house_capacities[h] > 0
         /\ DistinctRegistered(people_to_select)
         /\ n > max_people /\ n - max_people <= 4
         /\ ~(n = ExhaustiveFrom /\ max_people = ExhaustiveTo))
            => \A c \in Combinations(n, n - max_people) :
                  QuickBest(selected_people)
                      >= QuickWorst(TestPeople(people_to_select, c))

\* degreeWithin(name, pool): the members of the pool adjacent to name.
degreeWithin(name, pool) ==
    Cardinality({q \in pool \ {name} : q \in Neighbors(name)})

\* clusterBonus(name, pool): the pairs of neighbors of name in the pool that
\* are adjacent to each other.
clusterBonus(name, pool) ==
    LET near == {q \in pool \ {name} : q \in Neighbors(name)}
    IN  Cardinality({pr \in SUBSET near :
                        /\ Cardinality(pr) = 2
                        /\ \E a, b \in pr : a # b /\ b \in Neighbors(a)})

\* The list ordered by degreeWithin + 0.5 * clusterBonus (doubled here)
\* descending, equal scores in input order, cut to its first max_people.
PriorityOrder(list, max_people) ==
    LET Score2(k) == 2 * degreeWithin(list[k], Range(list))
                       + clusterBonus(list[k], Range(list))
        Before(k) == {j \in 1..Len(list) :
                         \/ Score2(j) > Score2(k)
                         \/ Score2(j) = Score2(k) /\ j < k}
    IN  [m \in 1..Min(max_people, Len(list)) |->
            list[CHOOSE k \in 1..Len(list) : Cardinality(Before(k)) = m - 1]]

\* The call takes the branch of select_best_people for a large excess.
LargeExcess ==
    LET n == Len(people_to_select)
        max_people == SumSeq(house_capacities)
    IN  /\ impl = "solver"
        /\ n - max_people > 4
        /\ ~(n = ExhaustiveFrom /\ max_people = ExhaustiveTo)

\* C21: for a large excess the list selected is the first sum(capacities)
\* candidates of the list ordered by degreeWithin + 0.5 * clusterBonus
\* descending, candidates of equal score in input order.
C21_PrioritySelectionOrder ==
    (LargeExcess /\ pc \in {"construct", "refine", "finish", "done"})
        => selected_people = PriorityOrder(people_to_select, SumSeq(house_capacities))

\* The house the greedy-gain rule names for person, given the groups a: among
\* the houses with room the one with the largest gain in connections, the
\* lowest index on a tie; when no gain is positive the one with the most
\* room left, the lowest index on a tie; 0 when no house has room.
GreedyGainHouse(a, person) ==
    LET open == {h \in 1..NumHouses : Len(a[h]) < house_capacities[h]}
        Gain(h) == calculate_connections_in_house(Append(a[h], person))
                     - calculate_connections_in_house(a[h])
        Room(h) == house_capacities[h] - Len(a[h])
        gaining == {h \in open : Gain(h) > 0 /\ \A g \in open : Gain(g) <= Gain(h)}
        roomiest == {h \in open : \A g \in open : Room(g) <= Room(h)}
        Lowest(S) == CHOOSE h \in S : \A g \in S : h <= g
    IN  IF open = {} THEN 0
        ELSE IF gaining # {} THEN Lowest(gaining)
        ELSE Lowest(roomiest)

\* The groups the greedy-gain rule builds from people_copy, from person k on.
RECURSIVE GreedyGainRule(_, _, _)
GreedyGainRule(people_copy, k, a) ==
    IF k > Len(people_copy) THEN a
    ELSE LET person == people_copy[k]
             h == GreedyGainHouse(a, person)
         IN  IF person \notin people \/ h = 0
             THEN GreedyGainRule(people_copy, k + 1, a)
             ELSE GreedyGainRule(people_copy, k + 1, [a EXCEPT ![h] = Append(@, person)])

\* C22: the assignment _smart_assignment_strategy has just built (the trials
\* with iteration % 3 = 0) is the one the greedy-gain rule builds from some
\* order of the selected people: largest gain first, and the house with the
\* most room left when no house gives a positive gain.
C22_GreedyGainPlacement ==
    (/\ impl = "solver" /\ pc = "refine" /\ ls_iterations = 0
     /\ iteration % 3 = 0
     /\ Len(house_capacities) = NumHouses
     /\ \A h \in DOMAIN house_capacities : house_capacities[h] > 0
     /\ DistinctRegistered(selected_people))
        => \E people_copy \in Shuffles(selected_people) :
              assignment = GreedyGainRule(people_copy, 1, EmptyAssignment)

\* The edges from person into the members of house.
EdgesInto(person, house) ==
    Cardinality({q \in Range(house) : person \in Neighbors(q)})

\* The cluster-seed rule from a seeded group on: the group being filled takes
\* the remaining person with the most edges into its members, the first in
\* the order of remaining on a tie.
RECURSIVE ClusterRuleFill(_, _, _)
ClusterRuleFill(a, remaining, h) ==
    IF h > NumHouses THEN a
    ELSE IF Len(a[h]) < house_capacities[h] /\ remaining # <<>>
         THEN LET k == CHOOSE k \in 1..Len(remaining) :
                          /\ \A m \in 1..Len(remaining) :
                                EdgesInto(remaining[m], a[h]) <= EdgesInto(remaining[k], a[h])
                          /\ \A m \in 1..(k - 1) :
                                EdgesInto(remaining[m], a[h]) < EdgesInto(remaining[k], a[h])
              IN  ClusterRuleFill([a EXCEPT ![h] = Append(@, remaining[k])],
                                  SubSeq(remaining, 1, k - 1)
                                      \o SubSeq(remaining, k + 1, Len(remaining)),
                                  h)
         ELSE ClusterRuleFill(a, remaining, h + 1)

\* The assignments the rule allows for pool: one for each seed of maximal
\* degree within the pool.
ClusterRuleResults(pool) ==
    LET seeds == {k \in 1..Len(pool) :
                     \A m \in 1..Len(pool) :
                        degreeWithin(pool[m], Range(pool)) <= degreeWithin(pool[k], Range(pool))}
    IN  {ClusterRuleFill([EmptyAssignment EXCEPT ![1] = <<pool[k]>>],
                         SubSeq(pool, 1, k - 1) \o SubSeq(pool, k + 1, Len(pool)), 1) :
            k \in seeds}

\* C23: the assignment _cluster_assignment_strategy has just built (the
\* trials with iteration % 3 = 1) seeds group 0 with a person of maximal
\* degree within the pool and fills each group with the remaining person of
\* the most edges into it, the first in the pool's order on a tie, also for
\* a pool without edges.
C23_ClusterSeedPicks ==
    (/\ impl = "solver" /\ pc = "refine" /\ ls_iterations = 0
     /\ iteration % 3 = 1
     /\ Len(house_capacities) = NumHouses
     /\ \A h \in DOMAIN house_capacities : house_capacities[h] > 0
     /\ DistinctRegistered(selected_people))
        => assignment \in ClusterRuleResults(selected_people)

\* C24: the trial loop of optimize_assignment starts with a count of 0; a
\* trial that raises the best score sets the count of trials without a gain
\* to 0, any other trial adds 1 to it; after a trial the loop goes on exactly
\* when the count is below min(50, iterations // 4) and fewer than
\* iterations trials have run.
C24_EarlyStopping ==
    [][/\ (impl = "solver" /\ pc = "call" /\ pc' = "construct")
            => (no_improvement_count' = 0 /\ iteration' = 0)
       /\ (impl = "solver" /\ pc = "refine" /\ iteration' = iteration + 1)
            => /\ iteration' <= iterations
               /\ best_score' > best_score => no_improvement_count' = 0
               /\ best_score' <= best_score
                     => no_improvement_count' = no_improvement_count + 1
               /\ pc' \in {"construct", "finish"}
               /\ pc' = "construct"
                     <=> /\ no_improvement_count' < Min(50, iterations \div 4)
                         /\ iteration' < iterations]_vars

\* The loop has stopped before its budget, after a trial with a gain and
\* then as many trials without one as the threshold asks.
C24_StoppedEarlyAfterGain ==
    /\ impl = "solver" /\ pc = "finish"
    /\ Min(50, iterations \div 4) > 0
    /\ no_improvement_count = Min(50, iterations \div 4)
    /\ iteration > no_improvement_count
    /\ iteration < iterations
    /\ best_score > 0

\* Calls of both classes on sample4 with four candidates.
InitSearch ==
    \E which \in {"solver", "optimizer"}, caps \in {<<2, 2, 2>>, <<2, 1, 1>>, <<3, 1, 1>>} :
        InitCall(which, caps, Sample4Relationships, <<"X", "Y", "Z", "W">>,
                 IF which = "solver" THEN <<SolverIterations>>
                 ELSE <<OptimizerIterations>>)

NextSearch ==
    \/ NextSolver
    \/ GreedyOptimizeStart
    \/ GreedyOptimizeConstruct
    \/ OptimizerLocalSearchPass
    \/ GreedyOptimizeAccept
    \/ GreedyOptimizeReturn

\* max_iterations of the _local_search that is running
MaxPasses == IF impl = "solver" THEN MaxPassesSolver ELSE MaxPassesOptimizer

\* What SolverLocalSearchPass and OptimizerLocalSearchPass do to the pass
\* counter and the position: the pass is counted, or the call raises.
PassEnds ==
    /\ pc = "refine" /\ improved /\ ls_iterations < MaxPasses
    /\ \/ ls_iterations' = ls_iterations + 1 /\ pc' = pc
       \/ ls_iterations' = ls_iterations /\ pc' = "raised"

\* A call is one thread of control: inside _local_search the pass that has
\* begun ends, and the return that is due is taken.
SpecSearch ==
    /\ InitSearch /\ [][NextSearch]_vars
    /\ WF_<<ls_iterations, pc>>(PassEnds)
    /\ WF_vars(OptimizeAssignmentAccept)
    /\ WF_vars(GreedyOptimizeAccept)

\* Groups b are groups a after one move of a person to another house or one
\* swap of two people between two houses.
OneMoveOrSwap(a, b) ==
    \/ \E i, j \in 0..(Len(a) - 1) : \E m \in DOMAIN a[i + 1] :
          i # j /\ SameGroups(b, MoveIn(a, i, j, a[i + 1][m]))
    \/ \E i, j \in 0..(Len(a) - 1) :
          \E m \in DOMAIN a[i + 1], n \in DOMAIN a[j + 1] :
             i < j /\ SameGroups(b, SwapIn(a, i, j, a[i + 1][m], a[j + 1][n]))

\* C25: _local_search runs at most 50 passes (100 in
\* house_assignment_solver.py); a pass applies one move or swap that raises
\* the score or none at all; after the first pass that found none the
\* search is left; and every search that is entered is left in the end.
C25_LocalSearchTerminates ==
    /\ [][/\ (pc = "refine" /\ ls_iterations' = ls_iterations + 1)
               => /\ improved /\ ls_iterations' <= MaxPasses
                  /\ IF improved'
                     THEN /\ current_score' > current_score
                          /\ OneMoveOrSwap(current_assignment, current_assignment')
                     ELSE SameGroups(current_assignment, current_assignment')
          /\ (pc = "refine" /\ ~improved) => pc' # "refine"]_vars
    /\ [](pc = "refine" => <>(pc # "refine"))

\* A search that took two passes, the second of which found nothing, has been
\* left with the refined groups.
C25_LeftAfterIdlePass ==
    /\ pc \in {"construct", "finish"}
    /\ ls_iterations = 2 /\ ~improved
    /\ current_score > score

\* C26: after construction the relationship graph is read-only:
\* optimize_assignment and the helpers it calls leave the registry and the
\* neighbor mapping, its set of keys included, as the constructor built them.
C26_GraphReadOnly ==
    pc \in {"call", "construct", "refine", "finish", "done", "raised", "hung"}
        => /\ people = BuildPeople(relationships)
           /\ connection_graph = BuildGraph(relationships)
           /\ DOMAIN connection_graph = DOMAIN BuildGraph(relationships)

\* The resets among the checks first..last
ResetsWithin(first, last) ==
    Cardinality({k \in 1..Len(reset_log) : first <= reset_log[k] /\ reset_log[k] <= last})

\* C27: weekly_reset_task calls reset_all_users only on a check that falls on
\* a Monday with GMT+7 hour 6, and with the checks one hour apart every week
\* of checks (7 * 24 in a row) holds exactly one reset.
C27_WeeklyResetOncePerWeek ==
    /\ [][reset_log' # reset_log
             => /\ now[1] = 0 /\ now[2] = 6
                /\ reset_log' = Append(reset_log, checks')]_vars
    /\ [](\A first \in 1..(checks - 7 * 24 + 1) :
             ResetsWithin(first, first + 7 * 24 - 1) = 1)

\* Two weeks of checks have run and the data has been reset twice, a week
\* apart; the second reset found no file left.
C27_TwoWeeksTwoResets ==
    /\ checks = MaxChecks
    /\ Len(reset_log) = 2
    /\ reset_log[2] - reset_log[1] = 7 * 24
    /\ last_op # None /\ last_op[1] = "reset" /\ last_op[5] = 0
    /\ user_files = <<>>

\* The same entities, each as many times
SameBag(a, b) ==
    \A x \in Range(a) \cup Range(b) : Occurrences(a, x) = Occurrences(b, x)

\* The working lists when all the trials of a pass have been tried and undone
AfterTrials(ca, cur_score) ==
    IF impl = "solver" THEN MovePairs(SwapPairs(PassStart(ca, cur_score), 0, 1), 0, 0).ca
    ELSE SwapPairs(PassStart(ca, cur_score), 0, 1).ca

\* C28: _local_search neither adds, drops nor duplicates entities: it starts
\* from a copy of the input assignment; when the trials of a pass are undone
\* every group holds the entities it held; after the applied move or swap
\* the groups together hold the multiset of the input assignment; and the
\* input assignment's lists stay as they were.
C28_LocalSearchKeepsEntities ==
    [][/\ (pc = "construct" /\ pc' = "refine") => current_assignment' = assignment'
       /\ (pc = "refine" /\ ls_iterations' = ls_iterations + 1)
             => /\ assignment' = assignment
                /\ \A h \in 1..Len(current_assignment) :
                      SameBag(AfterTrials(current_assignment, current_score)[h],
                              current_assignment[h])
                /\ Len(current_assignment') = Len(assignment)
                /\ SameBag(Flatten(current_assignment'), Flatten(assignment))]_vars

\* Two passes have each applied a move or swap to the copy, which now differs
\* from the input assignment.
C28_TwoMovesApplied ==
    /\ pc = "refine" /\ ls_iterations = 2 /\ improved
    /\ current_assignment # assignment
    /\ Len(Flatten(assignment)) >= 3

\* C29: from an empty store, whatever add_character, remove_character,
\* clear_user_data and reset_all_users calls are made with the one registry,
\* every stored list holds registry names only, none twice, and a call for
\* one user leaves every other user's file and list as they were.
C29_ListsCanonicalAndSeparate ==
    /\ [](\A u \in DOMAIN user_files :
             /\ Range(user_files[u]) \subseteq Range(CHARACTERS)
             /\ \A i, j \in 1..Len(user_files[u]) :
                   user_files[u][i] = user_files[u][j] => i = j)
    /\ [][(/\ user_files' # user_files
            /\ last_op'[1] \in {"add", "remove", "clear"})
             => \A u \in (DOMAIN user_files \cup DOMAIN user_files') \ {last_op'[2]} :
                   /\ u \in DOMAIN user_files /\ u \in DOMAIN user_files'
                   /\ user_files'[u] = user_files[u]]_vars

\* One user's data has just been cleared while the other user keeps a list of
\* two names.
C29_ClearedBesideFullList ==
    /\ last_op # None /\ last_op[1] = "clear" /\ last_op[5]
    /\ Len(last_op[4]) = 2
    /\ \E u \in DOMAIN user_files : u # last_op[2] /\ Len(user_files[u]) = 2

\* The registry's name for what handler h was asked to add
Wanted(h) == CHARACTERS[FirstMatch(handlers[h].character, CHARACTERS)]

\* Every add_character call made so far has returned True.
AllCallsStored ==
    \A h \in DOMAIN handlers :
       handlers[h].pc \in {"sending", "replied"} => handlers[h].success = <<TRUE>>

=============================================================================
